---- MODULE Spec2Model ----
(***************************************************************************)
(* Model of convert_excel.py: the record normalization, validation and     *)
(* conflict-resolution pipeline of the Noor queue export cleaner.          *)
(*                                                                         *)
(* Representation.  A Python str is a sequence of code points; each code   *)
(* point is a token: an ASCII character is itself ("a", "7", " ", "-"), a  *)
(* non-ASCII character is named after its Unicode name ("farsi_yeh" is     *)
(* U+06CC, "yeh" is U+064A, "keheh" is U+06A9, "kaf" is U+0643, "p3" is    *)
(* the Persian digit U+06F3, "a3" the Arabic-Indic digit U+0663).  A       *)
(* Python value (a cell of a frame, an argument, a result) is a record:    *)
(* Str(s) for a str, NA for None/NaN/pd.NA/pd.NaT, Ts(t) for a             *)
(* pd.Timestamp whose ordinal (the int64 it is stored as) is t.            *)
(*                                                                         *)
(* Left out: gender detection (detect_gender reads name lists from files   *)
(* outside the repository), the four formatted date columns and file I/O.  *)
(* The rows of the output frames keep every column of the working frame,   *)
(* so that the columns the output projection drops can be stated too.      *)
(***************************************************************************)
EXTENDS Integers, Sequences, FiniteSets, TLC

VARIABLES
  pc,                  \* "loaded" | "done" | "raised" | "call" | "return"
  df,                  \* the input frame: [columns: Seq(str), rows: Seq(Seq(value))]
  subset,              \* clean_dataframe's working frame after line 693, before line 696
  resolved,            \* the frame _enhanced_deduplication returned (line 696)
  cleaned_output,      \* the four frames clean_dataframe returns (line 794)
  excluded_output,
  duplicate_phone_output,
  incomplete_name_output,
  incomplete_records,  \* the attribute _enhanced_deduplication.incomplete_records
  dropped,             \* the local `dropped` of line 725
  error,               \* the exception clean_dataframe raised, or NoError
  fn,                  \* the pure function a call state applies
  value,               \* its argument
  result,              \* what it returned
  calls,               \* the number of calls of clean_dataframe in the process
  non_nanosecond       \* the build: whether its pd.Timestamp holds an instant
                       \* outside the nanosecond range (pandas 2) or raises
                       \* OutOfBoundsDatetime on it (pandas 1)

vars == <<pc, df, subset, resolved, cleaned_output, excluded_output,
          duplicate_phone_output, incomplete_name_output, incomplete_records,
          dropped, error, fn, value, result, calls, non_nanosecond>>

----------------------------------------------------------------------------
(* Python values *)

NA == [k |-> "na"]
Str(s) == [k |-> "str", s |-> s]
Ts(t) == [k |-> "ts", t |-> t]
isna(v) == v.k = "na"
notna(v) == ~isna(v)

Range(s) == {s[i] : i \in 1..Len(s)}

\* the sequence f as an explicit tuple of its elements (each evaluated once)
List(f) == <<>> \o f

\* the function f as an explicit table of its values (each evaluated once)
Table(f) == f @@ <<>>

\* F(v), with v evaluated once before F is applied (a local variable of the code)
With(v, F(_)) == CHOOSE r \in {F(w) : w \in {v}} : TRUE

----------------------------------------------------------------------------
(* Code points *)

AsciiDigits == <<"0", "1", "2", "3", "4", "5", "6", "7", "8", "9">>
PersianDigits == <<"p0", "p1", "p2", "p3", "p4", "p5", "p6", "p7", "p8", "p9">>
ArabicDigits == <<"a0", "a1", "a2", "a3", "a4", "a5", "a6", "a7", "a8", "a9">>

LatinLower == <<"a", "b", "c", "d", "e", "f", "g", "h", "i", "j", "k", "l", "m",
                "n", "o", "p", "q", "r", "s", "t", "u", "v", "w", "x", "y", "z">>
LatinUpper == <<"A", "B", "C", "D", "E", "F", "G", "H", "I", "J", "K", "L", "M",
                "N", "O", "P", "Q", "R", "S", "T", "U", "V", "W", "X", "Y", "Z">>

IndexOf(seq, c) == CHOOSE i \in 1..Len(seq) : seq[i] = c

\* the regular expression class \s, as far as the inputs go
Spaces == {" ", "\t", "\n"}
IsSpace(c) == c \in Spaces

\* the regular expression class \d of a str pattern: any Unicode decimal digit
Digits == Range(AsciiDigits) \cup Range(PersianDigits) \cup Range(ArabicDigits)
IsDigit(c) == c \in Digits

\* the regular expression class [A-Za-z]
Latin == Range(LatinLower) \cup Range(LatinUpper)
IsLatin(c) == c \in Latin

\* str.casefold and str.upper, one code point
LowerOf == [c \in Range(LatinUpper) |-> LatinLower[IndexOf(LatinUpper, c)]]
UpperOf == [c \in Range(LatinLower) |-> LatinUpper[IndexOf(LatinLower, c)]]
CasefoldChar(c) == IF c \in DOMAIN LowerOf THEN LowerOf[c] ELSE c
UpperChar(c) == IF c \in DOMAIN UpperOf THEN UpperOf[c] ELSE c

\* str.maketrans of the Persian and the Arabic-Indic digits to the ASCII digits
DigitTranslation ==
  [c \in Range(PersianDigits) \cup Range(ArabicDigits) |->
     IF c \in Range(PersianDigits) THEN AsciiDigits[IndexOf(PersianDigits, c)]
     ELSE AsciiDigits[IndexOf(ArabicDigits, c)]]
\* a translation of the Persian digits to the Arabic-Indic digits, and of these
\* to the ASCII digits
PERSIAN_DIGIT_MAP_chained(c) ==
  IF c \in Range(PersianDigits) THEN ArabicDigits[IndexOf(PersianDigits, c)]
  ELSE IF c \in Range(ArabicDigits) THEN AsciiDigits[IndexOf(ArabicDigits, c)]
  ELSE c
PERSIAN_DIGIT_MAP(c) == IF c \in DOMAIN DigitTranslation THEN DigitTranslation[c] ELSE c

\* the value of an ASCII digit
DigitValue == [c \in Range(AsciiDigits) |-> IndexOf(AsciiDigits, c) - 1]

LETTER_NORMALIZATION_MAP(c) ==
  IF c = "yeh" THEN "farsi_yeh" ELSE IF c = "kaf" THEN "keheh" ELSE c

----------------------------------------------------------------------------
(* str operations *)

RECURSIVE LStrip(_)
LStrip(s) == IF s # <<>> /\ IsSpace(Head(s)) THEN LStrip(Tail(s)) ELSE s

RECURSIVE RStrip(_)
RStrip(s) == IF s # <<>> /\ IsSpace(s[Len(s)]) THEN RStrip(SubSeq(s, 1, Len(s) - 1)) ELSE s

\* str.strip()
Strip(s) == RStrip(LStrip(s))

\* str.casefold()
Casefold(s) == List([i \in 1..Len(s) |-> CasefoldChar(s[i])])

Upper(s) == List([i \in 1..Len(s) |-> UpperChar(s[i])])

\* str.startswith(p)
StartsWith(s, p) == Len(s) >= Len(p) /\ SubSeq(s, 1, Len(p)) = p

\* p in s
Contains(s, p) == \E i \in 1..(Len(s) - Len(p) + 1) : SubSeq(s, i, i + Len(p) - 1) = p

\* re.sub(r"\s+", " ", s): every run of white space becomes one space
RECURSIVE CollapseSpaces(_)
CollapseSpaces(s) ==
  IF s = <<>> THEN <<>>
  ELSE IF IsSpace(Head(s))
       THEN <<" ">> \o CollapseSpaces(LStrip(s))
       ELSE <<Head(s)>> \o CollapseSpaces(Tail(s))

\* the length of the longest prefix of s without white space
RECURSIVE WordLen(_)
WordLen(s) == IF s = <<>> \/ IsSpace(Head(s)) THEN 0 ELSE 1 + WordLen(Tail(s))

\* [part for part in re.split(r"\s+", s) if part]
RECURSIVE SplitWords(_)
SplitWords(s) ==
  LET t == LStrip(s) IN
  IF t = <<>> THEN <<>>
  ELSE <<SubSeq(t, 1, WordLen(t))>> \o SplitWords(SubSeq(t, WordLen(t) + 1, Len(t)))

\* sep.join(parts)
RECURSIVE Join(_, _)
Join(sep, parts) ==
  IF parts = <<>> THEN <<>>
  ELSE IF Len(parts) = 1 THEN parts[1]
  ELSE parts[1] \o sep \o Join(sep, Tail(parts))

\* s < t for two str of ASCII digits (code point order)
RECURSIVE StrLess(_, _)
StrLess(s, t) ==
  IF t = <<>> THEN FALSE
  ELSE IF s = <<>> THEN TRUE
  ELSE IF Head(s) = Head(t) THEN StrLess(Tail(s), Tail(t))
  ELSE DigitValue[Head(s)] < DigitValue[Head(t)]

\* str(value) of a cell read as text
PyStr(v) == v.s

NanNone == {<<"n", "a", "n">>, <<"n", "o", "n", "e">>}

----------------------------------------------------------------------------
(* Text/digit normalizer *)

normalize_digits(v) ==
  IF isna(v) THEN <<>>
  ELSE LET text == Strip(PyStr(v)) IN
       IF text = <<>> \/ Casefold(text) \in NanNone THEN <<>>
       ELSE List([i \in 1..Len(text) |-> PERSIAN_DIGIT_MAP(text[i])])

normalize_farsi_text(v) ==
  LET text == normalize_digits(v) IN
  IF text = <<>> THEN <<>>
  ELSE Strip(CollapseSpaces(List([i \in 1..Len(text) |-> LETTER_NORMALIZATION_MAP(text[i])])))

\* re.sub(r"\D", "", text)
OnlyDigits(text) == SelectSeq(text, IsDigit)

----------------------------------------------------------------------------
(* Field validators *)

\* clean_national_id without line 470, the rejection of one repeated digit
clean_national_id_any_digits(v) ==
  LET digits == OnlyDigits(normalize_digits(v)) IN
  IF Len(digits) < 8 \/ Len(digits) > 11 THEN NA ELSE Str(digits)

clean_national_id(v) ==
  LET digits == OnlyDigits(normalize_digits(v)) IN
  IF Len(digits) < 8 \/ Len(digits) > 11 THEN NA
  ELSE IF Cardinality(Range(digits)) = 1 THEN NA
  ELSE IF 8 <= Len(digits) /\ Len(digits) <= 11 /\ Cardinality(Range(digits)) > 1
       THEN Str(digits)
       ELSE NA

\* clean_mobile without lines 493-494, the rule of the 0098 prefix
clean_mobile_no_0098(v) ==
  LET d0 == OnlyDigits(normalize_digits(v))
      d1 == IF StartsWith(d0, <<"9", "8">>) /\ Len(d0) = 12
            THEN <<"0">> \o SubSeq(d0, 3, Len(d0)) ELSE d0
      digits == IF Len(d1) = 10 /\ ~StartsWith(d1, <<"0">>) THEN <<"0">> \o d1 ELSE d1
  IN IF d0 = <<>> THEN NA
     ELSE IF Len(digits) \in {10, 11} THEN Str(digits)
     ELSE NA

clean_mobile(v) ==
  LET d0 == OnlyDigits(normalize_digits(v))
      d1 == IF StartsWith(d0, <<"9", "8">>) /\ Len(d0) = 12
            THEN <<"0">> \o SubSeq(d0, 3, Len(d0)) ELSE d0
      d2 == IF StartsWith(d1, <<"0", "0", "9", "8">>) /\ Len(d1) = 14
            THEN <<"0">> \o SubSeq(d1, 5, Len(d1)) ELSE d1
      digits == IF Len(d2) = 10 /\ ~StartsWith(d2, <<"0">>) THEN <<"0">> \o d2 ELSE d2
  IN IF d0 = <<>> THEN NA
     ELSE IF Len(digits) = 11 /\ StartsWith(digits, <<"0", "9">>) THEN Str(digits)
     ELSE IF Len(digits) = 10 /\ StartsWith(digits, <<"9">>) THEN Str(<<"0">> \o digits)
     ELSE IF Len(digits) = 10 THEN Str(digits)
     ELSE IF Len(digits) = 11 THEN Str(digits)
     ELSE NA

\* split_full_name returns the pair (first, last)
split_full_name(v) ==
  IF isna(v) THEN <<NA, NA>>
  ELSE LET text == Strip(PyStr(v)) IN
       IF text = <<>> \/ Casefold(text) \in NanNone THEN <<NA, NA>>
       ELSE LET pieces == SplitWords(text) IN
            IF pieces = <<>> THEN <<NA, NA>>
            ELSE IF Len(pieces) = 1 THEN <<Str(pieces[1]), NA>>
            ELSE <<Str(Join(<<" ">>, SubSeq(pieces, 1, Len(pieces) - 1))),
                   Str(pieces[Len(pieces)])>>

_is_name_complete(first_name, last_name) ==
  IF isna(first_name) \/ isna(last_name) THEN FALSE
  ELSE Len(Strip(PyStr(first_name))) >= 3 /\ Len(Strip(PyStr(last_name))) >= 3

----------------------------------------------------------------------------
(* Lookup tables.  A Mapping literal is the sequence of its (key, value)   *)
(* pairs in source order.                                                  *)

COLUMN_ALIASES ==
  [national_id |-> <<<<"keheh", "dal", "meem", "lam", "farsi_yeh">>,
                      <<"keheh", "dal", " ", "meem", "lam", "farsi_yeh">>,
                      <<"sheen", "noon", "alef", "seen", "heh", " ", "meem", "lam", "farsi_yeh">>>>,
     full_name |-> <<<<"beh", "farsi_yeh", "meem", "alef", "reh">>,
                      <<"noon", "alef", "meem", " ", "waw", " ", "noon", "alef", "meem", " ", "khah", "alef", "noon", "waw", "alef", "dal", "gaf", "farsi_yeh">>,
                      <<"noon", "alef", "meem", " ", "beh", "farsi_yeh", "meem", "alef", "reh">>>>,
     mobile |-> <<<<"meem", "waw", "beh", "alef", "farsi_yeh", "lam">>,
                      <<"sheen", "meem", "alef", "reh", "heh", " ", "meem", "waw", "beh", "alef", "farsi_yeh", "lam">>,
                      <<"sheen", "meem", "alef", "reh", "heh", " ", "teh", "meem", "alef", "seen">>>>]

OPTIONAL_COLUMN_ALIASES ==
  [visit_date |-> <<<<"teh", "alef", "reh", "farsi_yeh", "khah", " ", "alef", "khah", "thal">>>>,
     status |-> <<<<"waw", "dad", "ain", "farsi_yeh", "teh">>>>,
     appointment_type |-> <<<<"noon", "waw", "ain">>>>,
     clinic |-> <<<<"dal", "reh", "meem", "alef", "noon", "gaf", "alef", "heh">>>>]

STATUS_TAG_SOURCE ==
  <<<<<<"theh", "beh", "teh", " ", "noon", "waw", "beh", "teh">>,
       "not_showed_patient">>,
     <<<<"tcheh", "alef", "peh", " ", "noon", "waw", "beh", "teh">>,
       "showup_patient">>,
     <<<<"keheh", "noon", "seen", "lam", " ", "sheen", "dal", "heh">>,
       "canceling_patient">>>>

APPOINTMENT_TYPE_TAG_SOURCE ==
  <<<<<<"alef", "yeh", "noon", "teh", "reh", "noon", "teh", "yeh">>,
       "internet_user">>,
     <<<<"alef", "farsi_yeh", "noon", "teh", "reh", "noon", "teh", "farsi_yeh">>,
       "internet_user">>,
     <<<<"feh", "alef", "lam", "waw", "alef_with_madda_above", "peh">>,
       "phone_user">>,
     <<<<"feh", "alef", "lam", "waw", " ", "alef_with_madda_above", "peh">>,
       "phone_user">>>>

CLINIC_TAG_SOURCE ==
  <<<<<<"keheh", "lam", "farsi_yeh", "noon", "farsi_yeh", "keheh", " ", " ", "waw", "farsi_yeh", "jeh", "heh", " ", "feh", "waw", "qaf", " ", "teh", "khah", "sad", "sad", "farsi_yeh", " ", "jeem", "reh", "alef", "hah", "farsi_yeh", " ", "tcheh", "alef", "qaf", "farsi_yeh">>,
       "bariatric_surgery_clinic">>,
     <<<<"keheh", "lam", "farsi_yeh", "noon", "farsi_yeh", "keheh", " ", " ", "waw", "farsi_yeh", "jeh", "heh", " ", "feh", "waw", "qaf", " ", "teh", "khah", "sad", "sad", "farsi_yeh", " ", "tcheh", "keheh", "alef", "peh">>,
       "checkup_specialty_clinic">>,
     <<<<"keheh", "lam", "farsi_yeh", "noon", "farsi_yeh", "keheh", " ", " ", "waw", "farsi_yeh", "jeh", "heh", " ", "feh", "waw", "qaf", " ", "teh", "khah", "sad", "sad", "farsi_yeh", " ", "gaf", "waw", "alef", "reh", "sheen", " ", "waw", " ", "keheh", "beh", "dal">>,
       "gastro_hepatology_specialty_clinic">>,
     <<<<"keheh", "lam", "farsi_yeh", "noon", "farsi_yeh", "keheh", " ", "beh", "farsi_yeh", "noon", "alef", "farsi_yeh", "farsi_yeh", " ", "seen", "noon", "jeem", "farsi_yeh">>,
       "optometry_clinic">>,
     <<<<"keheh", "lam", "farsi_yeh", "noon", "farsi_yeh", "keheh", " ", "teh", "khah", "sad", "sad", "farsi_yeh", " ", "alef", "reh", "teh", "waw", "peh", "dal", "farsi_yeh">>,
       "orthopedics_clinic">>,
     <<<<"keheh", "lam", "farsi_yeh", "noon", "farsi_yeh", "keheh", " ", "teh", "khah", "sad", "sad", "farsi_yeh", " ", "alef", "waw", "reh", "waw", "lam", "waw", "jeh", "farsi_yeh", "(", "jeem", "reh", "alef", "hah", "farsi_yeh", " ", "keheh", "lam", "farsi_yeh", "heh", " ", "waw", " ", "peh", "reh", "waw", "seen", "teh", "alef", "teh", ")">>,
       "urology_clinic">>,
     <<<<"keheh", "lam", "farsi_yeh", "noon", "farsi_yeh", "keheh", " ", "teh", "khah", "sad", "sad", "farsi_yeh", " ", "beh", "farsi_yeh", "meem", "alef", "reh", "farsi_yeh", " ", "heh", "alef", "farsi_yeh", " ", "dal", "alef", "khah", "lam", "farsi_yeh">>,
       "internal_medicine_clinic">>,
     <<<<"keheh", "lam", "farsi_yeh", "noon", "farsi_yeh", "keheh", " ", "teh", "khah", "sad", "sad", "farsi_yeh", " ", "jeem", "reh", "alef", "hah", "farsi_yeh", " ", "alef", "tah", "feh", "alef", "lam">>,
       "pediatric_surgery_clinic">>,
     <<<<"keheh", "lam", "farsi_yeh", "noon", "farsi_yeh", "keheh", " ", "teh", "khah", "sad", "sad", "farsi_yeh", " ", "jeem", "reh", "alef", "hah", "farsi_yeh", " ", "jeem", "noon", "reh", "alef", "lam">>,
       "general_surgery_clinic">>,
     <<<<"keheh", "lam", "farsi_yeh", "noon", "farsi_yeh", "keheh", " ", "teh", "khah", "sad", "sad", "farsi_yeh", " ", "jeem", "reh", "alef", "hah", "farsi_yeh", " ", "zain", "noon", "alef", "noon", " ", "waw", " ", "zain", "alef", "farsi_yeh", "meem", "alef", "noon">>,
       "obgyn_surgery_clinic">>,
     <<<<"keheh", "lam", "farsi_yeh", "noon", "farsi_yeh", "keheh", " ", "teh", "khah", "sad", "sad", "farsi_yeh", " ", "jeem", "reh", "alef", "hah", "farsi_yeh", " ", "ain", "reh", "waw", "qaf", " ", "waw", " ", "waw", "alef", "reh", "farsi_yeh", "seen">>,
       "vascular_varicose_surgery_clinic">>,
     <<<<"keheh", "lam", "farsi_yeh", "noon", "farsi_yeh", "keheh", " ", "teh", "khah", "sad", "sad", "farsi_yeh", " ", "jeem", "reh", "alef", "hah", "farsi_yeh", " ", "feh", "keheh", " ", "waw", " ", "sad", "waw", "reh", "teh">>,
       "oral_maxillofacial_surgery_clinic">>,
     <<<<"keheh", "lam", "farsi_yeh", "noon", "farsi_yeh", "keheh", " ", "teh", "khah", "sad", "sad", "farsi_yeh", " ", "jeem", "reh", "alef", "hah", "farsi_yeh", " ", "qaf", "lam", "beh">>,
       "cardiac_surgery_clinic">>,
     <<<<"keheh", "lam", "farsi_yeh", "noon", "farsi_yeh", "keheh", " ", "teh", "khah", "sad", "sad", "farsi_yeh", " ", "jeem", "reh", "alef", "hah", "farsi_yeh", " ", "meem", "ghain", "zain", " ", "waw", " ", "alef", "ain", "sad", "alef", "beh">>,
       "neurosurgery_clinic">>,
     <<<<"keheh", "lam", "farsi_yeh", "noon", "farsi_yeh", "keheh", " ", "teh", "khah", "sad", "sad", "farsi_yeh", " ", "khah", "waw", "noon", " ", "waw", " ", "seen", "reh", "tah", "alef", "noon">>,
       "hematology_oncology_clinic">>,
     <<<<"keheh", "lam", "farsi_yeh", "noon", "farsi_yeh", "keheh", " ", "teh", "khah", "sad", "sad", "farsi_yeh", " ", "dal", "alef", "khah", "lam", "farsi_yeh">>,
       "internal_specialty_clinic">>,
     <<<<"keheh", "lam", "farsi_yeh", "noon", "farsi_yeh", "keheh", " ", "teh", "khah", "sad", "sad", "farsi_yeh", " ", "dal", "alef", "khah", "lam", "farsi_yeh", " ", "alef", "tah", "feh", "alef", "lam", " ", "waw", " ", "noon", "waw", "zain", "alef", "dal", "alef", "noon">>,
       "pediatric_neonatal_internal_clinic">>,
     <<<<"keheh", "lam", "farsi_yeh", "noon", "farsi_yeh", "keheh", " ", "teh", "khah", "sad", "sad", "farsi_yeh", " ", "dal", "alef", "khah", "lam", "farsi_yeh", " ", "reh", "farsi_yeh", "heh">>,
       "pulmonology_clinic">>,
     <<<<"keheh", "lam", "farsi_yeh", "noon", "farsi_yeh", "keheh", " ", "teh", "khah", "sad", "sad", "farsi_yeh", " ", "dal", "alef", "khah", "lam", "farsi_yeh", " ", "qaf", "lam", "beh", " ", "waw", " ", "ain", "reh", "waw", "qaf">>,
       "cardiology_clinic">>,
     <<<<"keheh", "lam", "farsi_yeh", "noon", "farsi_yeh", "keheh", " ", "teh", "khah", "sad", "sad", "farsi_yeh", " ", "dal", "alef", "khah", "lam", "farsi_yeh", " ", "meem", "ghain", "zain", " ", "waw", " ", "alef", "ain", "sad", "alef", "beh", " ", "alef", "tah", "feh", "alef", "lam">>,
       "pediatric_neurology_clinic">>,
     <<<<"keheh", "lam", "farsi_yeh", "noon", "farsi_yeh", "keheh", " ", "teh", "khah", "sad", "sad", "farsi_yeh", " ", "reh", "waw", "alef", "noon", "peh", "zain", "sheen", "keheh", "farsi_yeh">>,
       "psychiatry_clinic">>,
     <<<<"keheh", "lam", "farsi_yeh", "noon", "farsi_yeh", "keheh", " ", "teh", "khah", "sad", "sad", "farsi_yeh", " ", "zain", "farsi_yeh", "beh", "alef", "farsi_yeh", "farsi_yeh", " ", "waw", " ", "beh", "farsi_yeh", "waw", "teh", "farsi_yeh">>,
       "aesthetics_beauty_clinic">>,
     <<<<"keheh", "lam", "farsi_yeh", "noon", "farsi_yeh", "keheh", " ", "teh", "khah", "sad", "sad", "farsi_yeh", " ", "ain", "feh", "waw", "noon", "farsi_yeh">>,
       "infectious_diseases_clinic">>,
     <<<<"keheh", "lam", "farsi_yeh", "noon", "farsi_yeh", "keheh", " ", "teh", "khah", "sad", "sad", "farsi_yeh", " ", "peh", "waw", "seen", "teh", "arabic_comma", " ", "meem", "waw", " ", "waw", " ", "zain", "farsi_yeh", "beh", "alef", "farsi_yeh", "farsi_yeh">>,
       "dermatology_hair_aesthetics_clinic">>,
     <<<<"keheh", "lam", "farsi_yeh", "noon", "farsi_yeh", "keheh", " ", "teh", "khah", "sad", "sad", "farsi_yeh", " ", "tcheh", "sheen", "meem">>,
       "ophthalmology_clinic">>,
     <<<<"keheh", "lam", "farsi_yeh", "noon", "farsi_yeh", "keheh", " ", "teh", "khah", "sad", "sad", "farsi_yeh", " ", "gaf", "waw", "sheen", " ", "waw", " ", "hah", "lam", "qaf", " ", "waw", " ", "beh", "farsi_yeh", "noon", "farsi_yeh">>,
       "ent_clinic">>,
     <<<<"keheh", "lam", "farsi_yeh", "noon", "farsi_yeh", "keheh", " ", "teh", "ghain", "thal", "farsi_yeh", "heh", " ", "waw", " ", "reh", "jeh", "farsi_yeh", "meem", " ", "dal", "reh", "meem", "alef", "noon", "farsi_yeh">>,
       "nutrition_diet_therapy_clinic">>,
     <<<<"keheh", "lam", "farsi_yeh", "noon", "farsi_yeh", "keheh", " ", "jeem", "reh", "alef", "hah", "farsi_yeh", " ", "peh", "lam", "alef", "seen", "teh", "farsi_yeh", "keheh">>,
       "plastic_surgery_clinic">>,
     <<<<"keheh", "lam", "farsi_yeh", "noon", "farsi_yeh", "keheh", " ", "dal", "alef", "khah", "lam", "farsi_yeh", " ", "meem", "ghain", "zain", " ", "waw", " ", "alef", "ain", "sad", "alef", "beh">>,
       "neurology_clinic">>,
     <<<<"keheh", "lam", "farsi_yeh", "noon", "farsi_yeh", "keheh", " ", "zain", "khah", "meem">>,
       "wound_care_clinic">>,
     <<<<"keheh", "lam", "farsi_yeh", "noon", "farsi_yeh", "keheh", " ", "sheen", "noon", "waw", "alef", "farsi_yeh", "farsi_yeh", " ", "seen", "noon", "jeem", "farsi_yeh">>,
       "audiology_clinic">>,
     <<<<"keheh", "lam", "farsi_yeh", "noon", "farsi_yeh", "keheh", " ", "feh", "waw", "qaf", " ", "teh", "khah", "sad", "sad", "farsi_yeh", " ", "alef", "khah", "teh", "lam", "alef", "lam", "alef", "teh", " ", "jeem", "noon", "seen", "farsi_yeh", " ", "waw", " ", "zain", "noon", "alef", "sheen", "waw", "farsi_yeh", "farsi_yeh">>,
       "sexual_marital_disorders_clinic">>,
     <<<<"keheh", "lam", "farsi_yeh", "noon", "farsi_yeh", "keheh", " ", "feh", "waw", "qaf", " ", "teh", "khah", "sad", "sad", "farsi_yeh", " ", "beh", "farsi_yeh", "meem", "alef", "reh", "farsi_yeh", " ", "heh", "alef", "farsi_yeh", " ", "qaf", "lam", "beh">>,
       "cardiac_super_specialty_clinic">>,
     <<<<"keheh", "lam", "farsi_yeh", "noon", "farsi_yeh", "keheh", " ", "feh", "waw", "qaf", " ", "teh", "khah", "sad", "sad", "farsi_yeh", " ", "noon", "feh", "reh", "waw", "lam", "waw", "jeh", "farsi_yeh", "arabic_comma", " ", "ghain", "dal", "dal", "arabic_comma", " ", "dal", "farsi_yeh", "alef", "beh", "teh", " ", "waw", " ", "teh", "farsi_yeh", "reh", "waw", "yeh_with_hamza_above", "farsi_yeh", "dal">>,
       "nephrology_endocrine_diabetes_thyroid_clinic">>,
     <<<<"keheh", "lam", "farsi_yeh", "noon", "farsi_yeh", "keheh", " ", "feh", "waw", "qaf", " ", "teh", "khah", "sad", "sad", "farsi_yeh", " ", "peh", "seen", "teh", "alef", "noon">>,
       "breast_super_specialty_clinic">>,
     <<<<"keheh", "lam", "farsi_yeh", "noon", "farsi_yeh", "keheh", " ", "feh", "waw", "qaf", " ", "teh", "khah", "sad", "sad", "farsi_yeh", " ", "gaf", "waw", "alef", "reh", "sheen", " ", "alef", "tah", "feh", "alef", "lam">>,
       "pediatric_gastroenterology_clinic">>,
     <<<<"keheh", "lam", "farsi_yeh", "noon", "farsi_yeh", "keheh", " ", "meem", "sheen", "alef", "waw", "reh", "heh", " ", "waw", " ", "reh", "waw", "alef", "noon", "sheen", "noon", "alef", "seen", "farsi_yeh">>,
       "counseling_psychology_clinic">>,
     <<<<"keheh", "lam", "farsi_yeh", "noon", "farsi_yeh", "keheh", " ", "waw", "farsi_yeh", "jeh", "heh", " ", " ", "feh", "waw", "qaf", " ", "teh", "khah", "sad", "sad", "farsi_yeh", " ", "dal", "reh", "dal">>,
       "pain_super_specialty_clinic">>,
     <<<<"keheh", "lam", "farsi_yeh", "noon", "farsi_yeh", "keheh", " ", "waw", "farsi_yeh", "jeh", "heh", " ", " ", "feh", "waw", "qaf", " ", "teh", "khah", "sad", "sad", "farsi_yeh", " ", "zain", "alef", "noon", "waw", " ", "waw", " ", "teh", "ain", "waw", "farsi_yeh", "dad", " ", "meem", "feh", "sad", "lam">>,
       "knee_joint_replacement_clinic">>,
     <<<<"keheh", "lam", "farsi_yeh", "noon", "farsi_yeh", "keheh", " ", "waw", "farsi_yeh", "jeh", "heh", " ", " ", "feh", "waw", "qaf", " ", "teh", "khah", "sad", "sad", "farsi_yeh", " ", "qaf", "lam", "beh", " ", "alef", "tah", "feh", "alef", "lam", " ", "teh", "alef", " ", "1", "5", " ", "seen", "alef", "lam">>,
       "pediatric_cardiology_clinic">>,
     <<<<"keheh", "lam", "farsi_yeh", "noon", "farsi_yeh", "keheh", " ", "waw", "farsi_yeh", "jeh", "heh", " ", "feh", "waw", "qaf", " ", "teh", "khah", "sad", "sad", "farsi_yeh", " ", "reh", "waw", "meem", "alef", "teh", "waw", "lam", "waw", "jeh", "farsi_yeh">>,
       "rheumatology_super_specialty_clinic">>,
     <<<<"keheh", "lam", "farsi_yeh", "noon", "farsi_yeh", "keheh", " ", "waw", "farsi_yeh", "jeh", "heh", " ", "feh", "waw", "qaf", " ", "teh", "khah", "sad", "sad", "farsi_yeh", " ", "qaf", "lam", "beh">>,
       "heart_super_specialty_clinic">>>>
\* dict.get(key) of the dict built from `pairs` in order (a later pair with the
\* same key replaces an earlier one); None is NA
DictGet(pairs, key) ==
  LET hits == {i \in 1..Len(pairs) : pairs[i][1] = key} IN
  IF hits = {} THEN NA
  ELSE Str(pairs[CHOOSE i \in hits : \A j \in hits : j <= i][2])

_prepare_normalized_mapping(mapping) ==
  List([i \in 1..Len(mapping) |->
          <<Casefold(normalize_farsi_text(Str(mapping[i][1]))), mapping[i][2]>>])

STATUS_TAG_MAP == _prepare_normalized_mapping(STATUS_TAG_SOURCE)
APPOINTMENT_TYPE_TAG_MAP == _prepare_normalized_mapping(APPOINTMENT_TYPE_TAG_SOURCE)
CLINIC_TAG_MAP == _prepare_normalized_mapping(CLINIC_TAG_SOURCE)

----------------------------------------------------------------------------
(* Column resolver *)

\* re.sub(r"\s+", "", str(value)).casefold()
_normalize_header(h) == Casefold(SelectSeq(h, LAMBDA c : ~IsSpace(c)))

\* normalized = {_normalize_header(col): col for col in columns}, as its pairs
NormalizedColumns(columns) ==
  List([j \in 1..Len(columns) |-> <<_normalize_header(columns[j]), columns[j]>>])

\* the inner loop of _select_columns: the column of the first alias that has one
\* (`if candidate` is false for None and for the empty header), else NA
FirstCandidate(normalized, aliases) ==
  With(List([a \in 1..Len(aliases) |-> DictGet(normalized, _normalize_header(aliases[a]))]),
    LAMBDA candidates :
      LET found == {a \in 1..Len(aliases) : notna(candidates[a]) /\ candidates[a].s # <<>>}
      IN IF found = {} THEN NA
         ELSE candidates[CHOOSE a \in found : \A b \in found : a <= b])

RequiredTargets == <<"national_id", "full_name", "mobile">>
OptionalTargets == <<"visit_date", "status", "appointment_type", "clinic">>

NoError == [type |-> "none"]

\* _select_columns comparing headers and aliases as they are spelled, without
\* _normalize_header
_select_columns_exact(columns) ==
  LET found(t) == {j \in 1..Len(columns) : columns[j] \in Range(COLUMN_ALIASES[t])}
      missing == {t \in 1..Len(RequiredTargets) : found(RequiredTargets[t]) = {}}
  IN IF missing # {}
     THEN LET t == RequiredTargets[CHOOSE t \in missing : \A u \in missing : t <= u]
          IN [raised |-> [type |-> "KeyError", target |-> t,
                          aliases |-> COLUMN_ALIASES[t]]]
     ELSE [raised |-> NoError,
           selected |-> [t \in Range(RequiredTargets) |->
                           columns[CHOOSE j \in found(t) : TRUE]]]

\* _select_columns: the selected mapping, or the KeyError of the first target
\* (in the order of COLUMN_ALIASES) that no alias resolves
_select_columns(columns) ==
  With(Table([t \in Range(RequiredTargets) |->
                FirstCandidate(NormalizedColumns(columns), COLUMN_ALIASES[t])]),
    LAMBDA candidate :
      LET missing == {t \in 1..Len(RequiredTargets) : isna(candidate[RequiredTargets[t]])}
      IN IF missing # {}
         THEN LET t == RequiredTargets[CHOOSE t \in missing : \A u \in missing : t <= u]
              IN [raised |-> [type |-> "KeyError", target |-> t,
                              aliases |-> COLUMN_ALIASES[t]]]
         ELSE [raised |-> NoError,
               selected |-> [t \in Range(RequiredTargets) |-> candidate[t].s]])

\* _select_optional_columns: a mapping whose domain is the targets found
_select_optional_columns(columns) ==
  With(Table([t \in Range(OptionalTargets) |->
                FirstCandidate(NormalizedColumns(columns), OPTIONAL_COLUMN_ALIASES[t])]),
    LAMBDA candidate :
      [t \in {u \in Range(OptionalTargets) : notna(candidate[u])} |-> candidate[t].s])

----------------------------------------------------------------------------
(* Tag deriver *)

\* the closure add() of build_tags
TagAdd(tags, tag) ==
  IF notna(tag) /\ tag.s # "" /\ tag.s \notin Range(tags) THEN Append(tags, tag.s) ELSE tags

\* one of the three lookups of build_tags
TagOf(map, raw) ==
  LET v == normalize_farsi_text(raw) IN
  IF v # <<>> THEN DictGet(map, Casefold(v)) ELSE NA

\* build_tags looking the clinic up before the appointment type
build_tags_clinic_first(row) ==
  LET t0 == TagAdd(TagAdd(<<>>, Str("noor_hospital_queue")), Str("patient"))
      t1 == TagAdd(t0, TagOf(STATUS_TAG_MAP, row.status_raw))
      t2 == TagAdd(t1, TagOf(CLINIC_TAG_MAP, row.clinic_raw))
      tags == TagAdd(t2, TagOf(APPOINTMENT_TYPE_TAG_MAP, row.appointment_type_raw))
  IN Join(<<",">>, List([i \in 1..Len(tags) |-> <<tags[i]>>])) \o <<",">>

\* build_tags returns a str: here the sequence of its tag tokens and commas
build_tags(row) ==
  LET t0 == TagAdd(TagAdd(<<>>, Str("noor_hospital_queue")), Str("patient"))
      t1 == TagAdd(t0, TagOf(STATUS_TAG_MAP, row.status_raw))
      t2 == TagAdd(t1, TagOf(APPOINTMENT_TYPE_TAG_MAP, row.appointment_type_raw))
      tags == TagAdd(t2, TagOf(CLINIC_TAG_MAP, row.clinic_raw))
  IN IF tags = <<>> THEN <<>>
     ELSE Join(<<",">>, List([i \in 1..Len(tags) |-> <<tags[i]>>])) \o <<",">>

----------------------------------------------------------------------------
(* Calendars: datetime and the jdatetime library *)

g_days_in_month == <<31, 28, 31, 30, 31, 30, 31, 31, 30, 31, 30, 31>>
j_days_in_month == <<31, 31, 31, 31, 31, 31, 30, 30, 30, 30, 30, 29>>

\* the sum of the first n entries of a list of month lengths
RECURSIVE DaysBefore(_, _)
DaysBefore(months, n) == IF n = 0 THEN 0 ELSE DaysBefore(months, n - 1) + months[n]

\* calendar.isleap
GregorianLeap(y) == ((y % 4) = 0 /\ (y % 100) # 0) \/ (y % 400) = 0

\* datetime(year, month, day, hour, minute, second) does not raise ValueError
DatetimeValid(y, mo, d, h, mi, s) ==
  /\ 1 <= y /\ y <= 9999
  /\ 1 <= mo /\ mo <= 12
  /\ 1 <= d
  /\ d <= g_days_in_month[mo] + (IF mo = 2 /\ GregorianLeap(y) THEN 1 ELSE 0)
  /\ 0 <= h /\ h <= 23
  /\ 0 <= mi /\ mi <= 59
  /\ 0 <= s /\ s <= 59

\* date.toordinal: the day number of a Gregorian date, 0001-01-01 being day 1
GregorianOrdinal(y, mo, d) ==
  365 * (y - 1) + (y - 1) \div 4 - (y - 1) \div 100 + (y - 1) \div 400
    + DaysBefore(g_days_in_month, mo - 1)
    + (IF mo > 2 /\ GregorianLeap(y) THEN 1 ELSE 0) + d

\* jdatetime.date.isleap
JalaliLeap(y) == (y % 33) \in {1, 5, 9, 13, 17, 22, 26, 30}

\* jdatetime.date(year, month, day) does not raise ValueError
JalaliValid(y, mo, d) ==
  /\ 1 <= y /\ y <= 9377
  /\ 1 <= mo /\ mo <= 12
  /\ 1 <= d
  /\ d <= j_days_in_month[mo] + (IF mo = 12 /\ JalaliLeap(y) THEN 1 ELSE 0)

\* the month loop of JalaliToGregorian: from a day of the year (from 0) and
\* the month reached, the month and day
RECURSIVE GregorianMonthDay(_, _, _)
GregorianMonthDay(g_day_no, i, leap) ==
  LET length == g_days_in_month[i] + (IF i = 2 THEN leap ELSE 0)
  IN IF g_day_no >= length THEN GregorianMonthDay(g_day_no - length, i + 1, leap)
     ELSE <<i, g_day_no + 1>>

\* jdatetime.date(jy, jm, jd).togregorian(), for a valid Jalali date from
\* year 979 on: the arithmetic of jdatetime.jalali.JalaliToGregorian
JalaliToGregorian(jyear, jmonth, jday) ==
  LET jy == jyear - 979
      j_day_no == 365 * jy + (jy \div 33) * 8 + ((jy % 33) + 3) \div 4
                    + DaysBefore(j_days_in_month, jmonth - 1) + (jday - 1)
      g0 == j_day_no + 79
      gy0 == 1600 + 400 * (g0 \div 146097)
      g1 == g0 % 146097
      century == g1 >= 36525
      gy1 == IF century THEN gy0 + 100 * ((g1 - 1) \div 36524) ELSE gy0
      g2 == IF century
            THEN LET r == (g1 - 1) % 36524 IN IF r >= 365 THEN r + 1 ELSE r
            ELSE g1
      leap1 == IF century /\ ((g1 - 1) % 36524) < 365 THEN 0 ELSE 1
      gy2 == gy1 + 4 * (g2 \div 1461)
      g3 == g2 % 1461
      late == g3 >= 366
      gy == IF late THEN gy2 + (g3 - 1) \div 365 ELSE gy2
      g4 == IF late THEN (g3 - 1) % 365 ELSE g3
      leap == IF late THEN 0 ELSE leap1
      month_day == GregorianMonthDay(g4, 1, leap)
  IN <<gy, month_day[1], month_day[2]>>

\* the month loop of GregorianToJalali
RECURSIVE JalaliMonthDay(_, _)
JalaliMonthDay(j_day_no, i) ==
  IF i = 12 \/ j_day_no < j_days_in_month[i] THEN <<i, j_day_no + 1>>
  ELSE JalaliMonthDay(j_day_no - j_days_in_month[i], i + 1)

\* GregorianToJalali counting every year of a four-year cycle as 365 days
GregorianToJalaliNoLeapDay(gyear, gmonth, gday) ==
  LET j0 == GregorianOrdinal(gyear, gmonth, gday) - GregorianOrdinal(1600, 1, 1) - 79
      j1 == j0 % 12053
      j2 == j1 % 1461
      month_day == JalaliMonthDay(j2 % 365, 1)
  IN <<979 + 33 * (j0 \div 12053) + 4 * (j1 \div 1461) + (j2 \div 365),
       month_day[1], month_day[2]>>

\* jdatetime.date.fromgregorian(date=...), for a Gregorian date from 1600 on:
\* the arithmetic of jdatetime.jalali.GregorianToJalali
GregorianToJalali(gyear, gmonth, gday) ==
  LET gy == gyear - 1600
      g_day_no == 365 * gy + (gy + 3) \div 4 - (gy + 99) \div 100 + (gy + 399) \div 400
                    + DaysBefore(g_days_in_month, gmonth - 1)
                    + (IF gmonth > 2 /\ GregorianLeap(gy) THEN 1 ELSE 0) + (gday - 1)
      j0 == g_day_no - 79
      j1 == j0 % 12053
      jy1 == 979 + 33 * (j0 \div 12053) + 4 * (j1 \div 1461)
      j2 == j1 % 1461
      jy == IF j2 >= 366 THEN jy1 + (j2 - 1) \div 365 ELSE jy1
      j3 == IF j2 >= 366 THEN (j2 - 1) % 365 ELSE j2
      month_day == JalaliMonthDay(j3, 1)
  IN <<jy, month_day[1], month_day[2]>>

\* the ValueError a conversion raises
ValueError(message) == [type |-> "ValueError", message |-> message]

\* jalali_to_gregorian: the Gregorian triple, or the ValueError it raises
jalali_to_gregorian(j_year, j_month, j_day) ==
  IF JalaliValid(j_year, j_month, j_day)
  THEN [raised |-> NoError, returned |-> JalaliToGregorian(j_year, j_month, j_day)]
  ELSE [raised |-> ValueError("Invalid Jalali date")]

\* gregorian_to_jalali: the Jalali triple, or the ValueError it raises
gregorian_to_jalali(g_year, g_month, g_day) ==
  IF DatetimeValid(g_year, g_month, g_day, 0, 0, 0)
  THEN [raised |-> NoError, returned |-> GregorianToJalali(g_year, g_month, g_day)]
  ELSE [raised |-> ValueError("Invalid Gregorian date")]

\* the validity test of _is_jalali_date left out: every date of the years
\* 1300 to 1500 is taken for a Jalali date
_is_jalali_date_by_year(year, month, day) == ~(year < 1300 \/ year > 1500)

\* _is_jalali_date
_is_jalali_date(year, month, day) ==
  IF year < 1300 \/ year > 1500 THEN FALSE ELSE JalaliValid(year, month, day)

----------------------------------------------------------------------------
(* Date disambiguator *)

NaT == NA

\* re.sub(r"[\u200c\u200f]", "", text)
WithoutJoiners(text) == SelectSeq(text, LAMBDA c : c \notin {"zwnj", "rlm"})

\* text.replace(".", "/").replace("-", "/")
SlashSeparated(text) ==
  List([i \in 1..Len(text) |-> IF text[i] \in {".", "-"} THEN "/" ELSE text[i]])

\* text[k:]
After(text, k) == SubSeq(text, k + 1, Len(text))

\* the text a greedy \d{1,n} takes at the head of text
RECURSIVE DigitRun(_, _)
DigitRun(text, n) ==
  IF n = 0 \/ text = <<>> \/ ~IsDigit(Head(text)) THEN <<>>
  ELSE <<Head(text)>> \o DigitRun(Tail(text), n - 1)

\* the text a greedy \s+ takes at the head of text
RECURSIVE SpaceRun(_)
SpaceRun(text) ==
  IF text = <<>> \/ ~IsSpace(Head(text)) THEN <<>>
  ELSE <<Head(text)>> \o SpaceRun(Tail(text))

\* int(group) of a group of decimal digits
RECURSIVE IntOf(_)
IntOf(digits) ==
  IF digits = <<>> THEN 0
  ELSE 10 * IntOf(SubSeq(digits, 1, Len(digits) - 1))
         + DigitValue[PERSIAN_DIGIT_MAP(digits[Len(digits)])]

NoMatch == [matched |-> FALSE]

\* a match that has consumed nothing of text
Start(text) == [matched |-> TRUE, groups |-> <<>>, rest |-> text]

\* the match m followed by a group (\d{least,most}): the group is followed by
\* a character that is no digit or by nothing, so only its longest run can match
Group(m, least, most) ==
  IF ~m.matched THEN NoMatch
  ELSE With(DigitRun(m.rest, most), LAMBDA run :
         IF Len(run) < least THEN NoMatch
         ELSE [matched |-> TRUE,
               groups |-> Append(m.groups, IntOf(run)),
               rest |-> After(m.rest, Len(run))])

\* the match m followed by the character c
Literal(m, c) ==
  IF ~m.matched THEN NoMatch
  ELSE IF m.rest = <<>> \/ Head(m.rest) # c THEN NoMatch
  ELSE [matched |-> TRUE, groups |-> m.groups, rest |-> Tail(m.rest)]

\* the match m followed by \s+
Whitespace(m) ==
  IF ~m.matched THEN NoMatch
  ELSE With(SpaceRun(m.rest), LAMBDA run :
         IF run = <<>> THEN NoMatch
         ELSE [matched |-> TRUE, groups |-> m.groups, rest |-> After(m.rest, Len(run))])

\* re.match(r"(\d{3,4})/(\d{1,2})/(\d{1,2})", text)
MatchDate(text) ==
  Group(Literal(Group(Literal(Group(Start(text), 3, 4), "/"), 1, 2), "/"), 1, 2)

\* re.match(r"(\d{3,4})/(\d{1,2})/(\d{1,2})\s+(\d{1,2}):(\d{1,2})", text)
MatchDateTime(text) ==
  Group(Literal(Group(Whitespace(MatchDate(text)), 1, 2), ":"), 1, 2)

\* re.match(r"(\d{3,4})/(\d{1,2})/(\d{1,2})\s+(\d{1,2}):(\d{1,2}):(\d{1,2})", text)
MatchDateTimeSeconds(text) == Group(Literal(MatchDateTime(text), ":"), 1, 2)

\* re.search(pattern, text): the match at the first position that has one
RECURSIVE SearchDate(_)
SearchDate(text) ==
  IF text = <<>> THEN NoMatch
  ELSE With(MatchDate(text), LAMBDA m :
         IF m.matched THEN m ELSE SearchDate(Tail(text)))

RECURSIVE SearchDateTime(_)
SearchDateTime(text) ==
  IF text = <<>> THEN NoMatch
  ELSE With(MatchDateTime(text), LAMBDA m :
         IF m.matched THEN m ELSE SearchDateTime(Tail(text)))

RECURSIVE SearchDateTimeSeconds(_)
SearchDateTimeSeconds(text) ==
  IF text = <<>> THEN NoMatch
  ELSE With(MatchDateTimeSeconds(text), LAMBDA m :
         IF m.matched THEN m ELSE SearchDateTimeSeconds(Tail(text)))

\* a precedes b in the order of tuples of numbers of one length
RECURSIVE TupleLess(_, _)
TupleLess(a, b) ==
  /\ a # <<>>
  /\ \/ Head(a) < Head(b)
     \/ Head(a) = Head(b) /\ TupleLess(Tail(a), Tail(b))

\* pd.Timestamp.min and pd.Timestamp.max, to the whole second inside the range
Timestamp_min == <<1677, 9, 21, 0, 12, 44>>
Timestamp_max == <<2262, 4, 11, 23, 47, 16>>

\* try: return pd.Timestamp(datetime(year, month, day, hour, minute, second))
\* except ValueError: return pd.NaT -- datetime raises ValueError on fields
\* that are no date and time; pd.Timestamp raises OutOfBoundsDatetime, a
\* ValueError, outside the nanosecond range on a build that has only that
\* range.  The instant is held by the fields of its Gregorian date and time.
pd_Timestamp(year, month, day, hour, minute, second) ==
  LET fields == <<year, month, day, hour, minute, second>> IN
  IF ~DatetimeValid(year, month, day, hour, minute, second) THEN NaT
  ELSE IF TupleLess(fields, Timestamp_min) \/ TupleLess(Timestamp_max, fields)
       THEN IF non_nanosecond THEN Ts(fields) ELSE NaT
  ELSE Ts(fields)

\* lines 286-298 and 309-320: the instant of the fields read from the text
InstantOf(f) ==
  IF _is_jalali_date(f[1], f[2], f[3])
  THEN With(jalali_to_gregorian(f[1], f[2], f[3]), LAMBDA g :
         IF g.raised # NoError THEN NaT
         ELSE pd_Timestamp(g.returned[1], g.returned[2], g.returned[3], f[4], f[5], f[6]))
  ELSE pd_Timestamp(f[1], f[2], f[3], f[4], f[5], f[6])

\* lines 277-284: the fields of a match of a date and time pattern
FieldsOf(groups) ==
  <<groups[1], groups[2], groups[3],
    IF Len(groups) > 3 THEN groups[4] ELSE 0,
    IF Len(groups) > 4 THEN groups[5] ELSE 0,
    IF Len(groups) > 5 THEN groups[6] ELSE 0>>

\* line 269: text[:4]/text[4:6]/text[6:] of a text of eight digits
EightDigits(text) ==
  IF Len(text) = 8 /\ \A i \in 1..8 : IsDigit(text[i])
  THEN SubSeq(text, 1, 4) \o <<"/">> \o SubSeq(text, 5, 6) \o <<"/">> \o SubSeq(text, 7, 8)
  ELSE text

\* lines 271-320 on the text of line 269: the patterns in the order the code
\* tries them
ParseText(text) ==
  With(SearchDateTime(text), LAMBDA first :
    IF first.matched THEN InstantOf(FieldsOf(first.groups))
    ELSE With(SearchDateTimeSeconds(text), LAMBDA second :
      IF second.matched THEN InstantOf(FieldsOf(second.groups))
      ELSE With(SearchDate(text), LAMBDA date :
        IF ~date.matched THEN NaT ELSE InstantOf(FieldsOf(date.groups)))))

\* parse_visit_date: an absent cell is NaT, a native pd.Timestamp passes
\* through (250-253), a text is read as a date (261-320)
parse_visit_date(v) ==
  CASE v.k = "na" -> NaT
    [] v.k = "ts" -> v
    [] v.k = "str" ->
         With(Strip(SlashSeparated(WithoutJoiners(normalize_digits(v)))), LAMBDA text :
           IF text = <<>> THEN NaT ELSE ParseText(EightDigits(text)))

----------------------------------------------------------------------------
(* Frames.  A frame is the sequence of its rows; a row is a record of its  *)
(* cells and of `index`, its label (the position of the input row it was   *)
(* made from).                                                             *)

\* sorted(s) under the strict weak order Before, stable (ties keep their order in s)
SortBy(s, Before(_, _)) ==
  LET n == Len(s)
      rank(i) == 1 + Cardinality({j \in 1..n :
                        Before(s[j], s[i]) \/ (~Before(s[i], s[j]) /\ j < i)})
  IN With(List([i \in 1..n |-> rank(i)]), LAMBDA ranks :
       List([k \in 1..n |-> s[CHOOSE i \in 1..n : ranks[i] = k]]))

\* ascending national_id, NA last
NationalIdBefore(a, b) ==
  notna(a.national_id) /\ (isna(b.national_id) \/ StrLess(a.national_id.s, b.national_id.s))

\* descending visit_date_parsed, NaT last
VisitBefore(a, b) ==
  notna(a.visit_date_parsed)
    /\ (isna(b.visit_date_parsed) \/ a.visit_date_parsed.t > b.visit_date_parsed.t)

\* sort_values(by=["national_id", "visit_date_parsed"], ascending=[True, False],
\*             na_position="last")
SortByIdThenVisit(frame) ==
  SortBy(frame, LAMBDA a, b :
    NationalIdBefore(a, b) \/ (~NationalIdBefore(b, a) /\ VisitBefore(a, b)))

\* a sort by visit instant that leaves the rows of equal instant in the reverse
\* of the order they had
SortByVisitTiesReversed(frame) ==
  SortBy(List([i \in 1..Len(frame) |-> frame[Len(frame) + 1 - i]]), VisitBefore)

\* sort_values("visit_date_parsed", ascending=False, na_position="last"): the
\* default kind "quicksort" sorts a run of at most 16 elements by insertion,
\* which keeps the rows of equal instant in the order they had
SortByVisit(frame) == SortBy(frame, VisitBefore)

Filter(frame, Keep(_)) == SelectSeq(frame, Keep)

\* the position in df.columns of the column named col
ColumnIndex(columns, col) == CHOOSE j \in 1..Len(columns) : columns[j] = col

\* lines 644-674: for each logical field the position of the input column it
\* is read from; 0 for an optional field the input lacks (its column is
\* created by line 674)
column_order(columns, selectors, optional_selectors) ==
  Table([t \in Range(RequiredTargets) \cup Range(OptionalTargets) |->
           IF t \in DOMAIN selectors THEN ColumnIndex(columns, selectors[t])
           ELSE IF t \in DOMAIN optional_selectors
                THEN ColumnIndex(columns, optional_selectors[t])
                ELSE 0])

\* lines 655-688 for one input row, `cells`, whose label is i: the selected
\* cells under their new names, an absent cell for each optional column the
\* input lacks, and the derived columns
PrepareRow(cells, order, i) ==
  LET opt(t) == IF order[t] = 0 THEN NA ELSE cells[order[t]]
      name_parts == split_full_name(cells[order["full_name"]])
  IN [index |-> i,
      national_id_raw |-> cells[order["national_id"]],
      full_name |-> cells[order["full_name"]],
      mobile_raw |-> cells[order["mobile"]],
      visit_date_raw |-> opt("visit_date"),
      status_raw |-> opt("status"),
      appointment_type_raw |-> opt("appointment_type"),
      clinic_raw |-> opt("clinic"),
      national_id |-> clean_national_id(cells[order["national_id"]]),
      mobile |-> clean_mobile(cells[order["mobile"]]),
      first_name |-> name_parts[1],
      last_name |-> name_parts[2],
      visit_date_parsed |-> parse_visit_date(opt("visit_date"))]

----------------------------------------------------------------------------
(* Deduplication and classification engine *)

\* the keys of df.groupby("national_id") in the order the groups are visited:
\* the present identity numbers, ascending (an absent key forms no group)
RECURSIVE SortedKeys(_)
SortedKeys(keys) ==
  IF keys = {} THEN <<>>
  ELSE LET least == CHOOSE x \in keys : \A y \in keys \ {x} : StrLess(x, y)
       IN <<least>> \o SortedKeys(keys \ {least})

GroupKeys(frame) ==
  SortedKeys({frame[i].national_id.s : i \in {j \in 1..Len(frame) : notna(frame[j].national_id)}})

\* one group of the loop of line 582, sorted as line 587 sorts it
GroupOf(frame, national_id) ==
  SortByVisit(Filter(frame, LAMBDA r : notna(r.national_id) /\ r.national_id.s = national_id))

\* the body of the loop appending the complete-name record itself instead of
\* the most recent record under its name
ResolveGroupWholeRecord(group) ==
  LET most_recent == group[1]
      complete == {i \in 1..Len(group) :
                     _is_name_complete(group[i].first_name, group[i].last_name)}
  IN IF complete # {}
     THEN [list |-> "result_records",
           record |-> group[CHOOSE i \in complete : \A j \in complete : i <= j]]
     ELSE [list |-> "incomplete_records", record |-> most_recent]

\* the body of the loop appending the most recent record of a group without a
\* complete name to the result list, where the name validator excludes it
ResolveGroupNoIncompleteList(group) ==
  [ResolveGroupWholeRecord(group) EXCEPT !.list = "result_records"]

\* the body of the loop, lines 590-612, for one sorted group: the record to
\* append, and the list it is appended to
ResolveGroup(group) ==
  LET most_recent == group[1]
      complete == {i \in 1..Len(group) :
                     _is_name_complete(group[i].first_name, group[i].last_name)}
  IN IF _is_name_complete(most_recent.first_name, most_recent.last_name)
     THEN [list |-> "result_records", record |-> most_recent]
     ELSE IF complete # {}
     THEN LET record == group[CHOOSE i \in complete : \A j \in complete : i <= j]
          IN [list |-> "result_records",
              record |-> [most_recent EXCEPT
                            !.first_name = record.first_name,
                            !.last_name = record.last_name,
                            !.full_name = Str(PyStr(record.first_name) \o <<" ">>
                                                \o PyStr(record.last_name))]]
     ELSE [list |-> "incomplete_records", record |-> most_recent]

\* _enhanced_deduplication without the else branch of lines 624-625: a call
\* that finds no incomplete group leaves the attribute as it was
_enhanced_deduplication_keeps_attribute(frame) ==
  LET keys == GroupKeys(frame)
      outcome == List([g \in 1..Len(keys) |-> ResolveGroup(GroupOf(frame, keys[g]))])
      pick(list) == LET chosen == SelectSeq(outcome, LAMBDA o : o.list = list)
                    IN List([g \in 1..Len(chosen) |-> chosen[g].record])
  IN [result_df |-> pick("result_records"),
      incomplete_records |-> IF pick("incomplete_records") = <<>> THEN incomplete_records
                             ELSE pick("incomplete_records")]

\* _enhanced_deduplication: the frame it returns and the frame it leaves in
\* its attribute incomplete_records
_enhanced_deduplication(frame) ==
  LET keys == GroupKeys(frame)
      outcome == List([g \in 1..Len(keys) |-> ResolveGroup(GroupOf(frame, keys[g]))])
      pick(list) == LET chosen == SelectSeq(outcome, LAMBDA o : o.list = list)
                    IN List([g \in 1..Len(chosen) |-> chosen[g].record])
  IN [result_df |-> pick("result_records"),
      incomplete_records |-> pick("incomplete_records")]

KARBAR == <<"keheh", "alef", "reh", "beh", "reh", " ", "teh", "lam", "feh", "noon", "farsi_yeh">>

\* series.fillna("").astype(str), one cell
FillStr(v) == IF isna(v) THEN <<>> ELSE PyStr(v)

\* str.match(r"^\d+$"), for a str without line breaks
AllDigits(s) == s # <<>> /\ \A i \in 1..Len(s) : IsDigit(s[i])

\* invalid_name_mask without contains_english
invalid_name_mask_no_latin(row) ==
  LET full_names == FillStr(row.full_name)
  IN \/ Contains(Upper(full_names), Upper(KARBAR))
     \/ \E i \in 1..Len(full_names) : full_names[i] \in {".", "-"}
     \/ Len(FillStr(row.first_name)) < 3
     \/ Len(FillStr(row.last_name)) < 3
     \/ AllDigits(FillStr(row.first_name))
     \/ AllDigits(FillStr(row.last_name))

\* invalid_name_mask, lines 699-716, for one row
invalid_name_mask(row) ==
  LET full_names == FillStr(row.full_name)
      contains_karbar == Contains(Upper(full_names), Upper(KARBAR))
      contains_punctuation == \E i \in 1..Len(full_names) : full_names[i] \in {".", "-"}
      contains_english == \E i \in 1..Len(full_names) : IsLatin(full_names[i])
      first_name_too_short == Len(FillStr(row.first_name)) < 3
      last_name_too_short == Len(FillStr(row.last_name)) < 3
      first_name_numeric == AllDigits(FillStr(row.first_name))
      last_name_numeric == AllDigits(FillStr(row.last_name))
  IN contains_karbar \/ contains_punctuation \/ contains_english
       \/ first_name_too_short \/ last_name_too_short
       \/ first_name_numeric \/ last_name_numeric

\* a required_mask that asks for a phone as well
required_mask_and_mobile(row) ==
  notna(row.national_id) /\ notna(row.first_name) /\ notna(row.last_name)
    /\ notna(row.mobile)

\* required_mask, line 724, for one row
required_mask(row) == notna(row.national_id) /\ notna(row.first_name) /\ notna(row.last_name)

\* line 731 with keep="first": of the rows sharing a mobile, all but the first
phone_duplicates_keep_first(frame) ==
  LET at(r) == CHOOSE i \in 1..Len(frame) : frame[i].index = r.index
  IN Filter(frame, LAMBDA r :
       notna(r.mobile) /\ \E j \in 1..(at(r) - 1) : frame[j].mobile = r.mobile)

\* line 731: the rows with a present mobile that another row of the frame has too
phone_duplicates(frame) ==
  Filter(frame, LAMBDA r :
    notna(r.mobile)
      /\ \E j \in 1..Len(frame) : frame[j].index # r.index /\ frame[j].mobile = r.mobile)

\* a drop that removes nothing
DropNothing(frame, gone) == frame

\* frame.drop(labels): the rows whose label is not among those of `gone`
Drop(frame, gone) ==
  Filter(frame, LAMBDA r : \A i \in 1..Len(gone) : gone[i].index # r.index)

\* frame["tags"] = frame.apply(build_tags, axis=1)
WithTags(frame) ==
  List([i \in 1..Len(frame) |->
          [f \in DOMAIN frame[i] \cup {"tags"} |->
             IF f = "tags" THEN build_tags(frame[i]) ELSE frame[i][f]]])

\* lines 696-794: the classification of the prepared and sorted frame
Classify(prepared) ==
  With(_enhanced_deduplication(prepared), LAMBDA dedup :
    LET excluded == Filter(dedup.result_df, invalid_name_mask)
        valid == Filter(dedup.result_df, LAMBDA r : ~invalid_name_mask(r))
    IN With(Filter(valid, required_mask), LAMBDA required :
         With(phone_duplicates(required), LAMBDA duplicates :
           [raised |-> NoError,
            subset |-> prepared,
            resolved |-> dedup.result_df,
            incomplete_records |-> dedup.incomplete_records,
            dropped |-> Len(valid) - Len(required),
            cleaned_output |-> WithTags(Drop(required, duplicates)),
            excluded_output |-> WithTags(excluded),
            duplicate_phone_output |-> WithTags(duplicates),
            incomplete_name_output |-> WithTags(dedup.incomplete_records)])))

\* clean_dataframe: what it raises, or the frames it returns with the
\* intermediate frames it computed on the way
clean_dataframe(frame) ==
  With(_select_columns(frame.columns), LAMBDA sel :
    IF sel.raised # NoError THEN [raised |-> sel.raised]
    ELSE
      With(column_order(frame.columns, sel.selected, _select_optional_columns(frame.columns)),
        LAMBDA order :
          With(SortByIdThenVisit(List([i \in 1..Len(frame.rows) |->
                                        PrepareRow(frame.rows[i], order, i)])),
               Classify)))

----------------------------------------------------------------------------
(* Input values *)

MaxRows == 2

\* identity numbers: two valid ones, one too short, one of a single repeated digit
IdA == Str(<<"1", "2", "3", "4", "5", "6", "7", "8", "9", "1">>)
IdB == Str(<<"0", "0", "7", "6", "5", "4", "3", "2", "1", "0">>)
IdShort == Str(<<"1", "2", "3">>)
IdRepeated == Str(<<"1", "1", "1", "1", "1", "1", "1", "1", "1", "1">>)

\* names: "Ali Rezaei" and "Maryam  Ahmadi" (two spaces) in Persian letters, the
\* single word "Ali", and complete names the name validator refuses
NameAli == Str(<<"ain", "lam", "farsi_yeh", " ", "reh", "dad", "alef", "farsi_yeh", "farsi_yeh">>)
NameMaryam == Str(<<"meem", "reh", "farsi_yeh", "meem", " ", " ", "alef", "hah", "meem", "dal", "farsi_yeh">>)
NameSingle == Str(<<"ain", "lam", "farsi_yeh">>)
NameLatin == Str(<<"A", "l", "i", " ", "R", "e", "z", "a", "e", "i">>)
NameHyphen == Str(<<"ain", "lam", "farsi_yeh", "-", "reh", "dad", "alef", " ", "reh", "dad", "alef", "farsi_yeh", "farsi_yeh">>)
NameDigitsFirst == Str(<<"p1", "p2", "p3", " ", "reh", "dad", "alef", "farsi_yeh", "farsi_yeh">>)
NameDigitsLast == Str(<<"ain", "lam", "farsi_yeh", " ", "p4", "p5", "p6">>)
NameKarbar == Str(KARBAR)

\* phones: one number in three spellings, another number, one too short
PhoneP == Str(<<"0", "9", "1", "2", "1", "2", "3", "4", "5", "6", "7">>)
PhoneP98 == Str(<<"9", "8", "9", "1", "2", "1", "2", "3", "4", "5", "6", "7">>)
PhoneQ == Str(<<"0", "9", "3", "5", "7", "6", "5", "4", "3", "2", "1">>)
PhoneShort == Str(<<"9", "1", "2">>)

StatusShowup == Str(<<"tcheh", "alef", "peh", " ", "noon", "waw", "beh", "teh">>)
StatusCancel == Str(<<"keheh", "noon", "seen", "lam", " ", "sheen", "dal", "heh">>)
TypeInternet == Str(<<"alef", "yeh", "noon", "teh", "reh", "noon", "teh", "yeh">>)
TypeFollowUp == Str(<<"feh", "alef", "lam", "waw", " ", "alef_with_madda_above", "peh">>)
ClinicWound == Str(<<"keheh", "lam", "farsi_yeh", "noon", "farsi_yeh", "keheh", " ", "zain", "khah", "meem">>)

\* the headers of a Noor queue export, in the order the pipeline reads them
DefaultColumns ==
  <<<<"keheh", "dal", "meem", "lam", "farsi_yeh">>,
    <<"beh", "farsi_yeh", "meem", "alef", "reh">>,
    <<"meem", "waw", "beh", "alef", "farsi_yeh", "lam">>,
    <<"teh", "alef", "reh", "farsi_yeh", "khah", " ", "alef", "khah", "thal">>,
    <<"waw", "dad", "ain", "farsi_yeh", "teh">>,
    <<"noon", "waw", "ain">>,
    <<"dal", "reh", "meem", "alef", "noon", "gaf", "alef", "heh">>>>

\* other headers: an alias spelled with two spaces, further aliases, and two
\* columns of the export that the pipeline does not read
HeaderIdSpaced == <<"keheh", "dal", " ", " ", "meem", "lam", "farsi_yeh">>
HeaderIdThird == <<"sheen", "noon", "alef", "seen", "heh", " ", "meem", "lam", "farsi_yeh">>
HeaderNameThird == <<"noon", "alef", "meem", " ", " ", "beh", "farsi_yeh", "meem", "alef", "reh">>
HeaderPhoneThird == <<"sheen", "meem", "alef", "reh", "heh", " ", "teh", "meem", "alef", "seen">>
HeaderDoctor == <<"peh", "zain", "sheen", "keheh">>
HeaderCallerId == <<"C", "a", "l", "l", "e", "r", "I", "D">>

\* a visit: the cells of the phone, visit date, status, appointment type and
\* clinic columns
Visits ==
  {<<PhoneP, Ts(2), StatusShowup, TypeInternet, ClinicWound>>,
   <<NA, Ts(1), StatusCancel, TypeFollowUp, NA>>,
   <<PhoneP98, NA, NA, NA, NA>>}

\* the rows of the frames of Spec: identity, name and visit vary
Rows ==
  {<<id, name>> \o visit :
     id \in {IdA, IdB, IdShort}, name \in {NameAli, NameMaryam, NameSingle},
     visit \in Visits}

\* the rows of the frames of SpecPhone: identity, name validity and phone vary
PhoneRows ==
  {<<id, name, phone, Ts(1), NA, NA, NA>> :
     id \in {IdA, IdB, IdRepeated}, name \in {NameAli, NameLatin},
     phone \in {PhoneP, PhoneP98, PhoneQ, NA}}

\* the rows of the frames of SpecNames: the name varies over every kind the
\* name validator tells apart, under one identity at two instants and under
\* another at one
Names ==
  {NameAli, NameMaryam, NameSingle, NameLatin, NameHyphen, NameDigitsFirst,
   NameDigitsLast, NameKarbar, NA}
NameRows ==
  {<<IdA, name, NA, when, NA, NA, NA>> : name \in Names, when \in {Ts(1), Ts(2)}}
    \cup {<<IdB, name, NA, Ts(1), NA, NA, NA>> : name \in Names}

\* the sequences over S of length 1..n
SeqsUpTo(S, n) == UNION {[1..k -> S] : k \in 1..n}

\* the frames of SpecColumns: one row under every ordered choice of headers
\* from HeaderPool; the cell under a header is HeaderCells' at its position
HeaderPool ==
  <<DefaultColumns[1], HeaderIdSpaced, HeaderIdThird,
    DefaultColumns[2], HeaderNameThird,
    DefaultColumns[3], HeaderPhoneThird,
    DefaultColumns[4], DefaultColumns[5], DefaultColumns[6], DefaultColumns[7],
    HeaderDoctor, HeaderCallerId>>
HeaderCells ==
  <<IdA, IdB, IdShort,
    NameAli, NameMaryam,
    PhoneP, PhoneQ,
    Ts(1), StatusShowup, TypeInternet, ClinicWound,
    NameAli, PhoneQ>>

RECURSIVE Pick(_, _, _)
Pick(seq, chosen, j) ==
  IF j > Len(seq) THEN <<>>
  ELSE (IF j \in chosen THEN <<seq[j]>> ELSE <<>>) \o Pick(seq, chosen, j + 1)

ColumnFrames ==
  {[columns |-> Pick(HeaderPool, chosen, 1), rows |-> <<Pick(HeaderCells, chosen, 1)>>] :
     chosen \in SUBSET (1..Len(HeaderPool))}

\* the arguments of SpecNationalId: the strings of up to MaxIdLen digits over
\* an ASCII one and a Persian zero, bare and with a hyphen after the first
MaxIdLen == 12
IdAlphabet == {"1", "p0"}
IdDigitStrings == UNION {[1..k -> IdAlphabet] : k \in 1..MaxIdLen}
NationalIdArguments ==
  {Str(s) : s \in IdDigitStrings} \cup {Str(<<s[1], "-">> \o Tail(s)) : s \in IdDigitStrings}

\* the arguments of SpecMobile: a country prefix or none, a first digit and
\* up to MaxMobileTail further digits
MaxMobileTail == 10
MobileArguments ==
  {Str(prefix \o <<first>> \o tail) :
     prefix \in {<<>>, <<"9", "8">>, <<"+", "9", "8">>, <<"0", "0", "9", "8">>},
     first \in {"0", "9", "1", "p9"},
     tail \in UNION {[1..k -> {"0", "9"}] : k \in 1..MaxMobileTail}}

\* the arguments of SpecTags: the status, appointment type and clinic cells
StatusShowupSpaced == Str(<<" ", "tcheh", "alef", "peh", " ", " ", "noon", "waw", "beh", "teh">>)
StatusRegistered == Str(<<"theh", "beh", "teh", " ", "noon", "waw", "beh", "teh">>)
Unknown == Str(<<"noon", "alef", "meem", "sheen", "khah", "sad">>)
Nan == Str(<<"N", "a", "N">>)
TypeInternetFarsi == Str(<<"alef", "farsi_yeh", "noon", "teh", "reh", "noon", "teh", "farsi_yeh">>)
TypeFollowUpJoined == Str(<<"feh", "alef", "lam", "waw", "alef_with_madda_above", "peh">>)
ClinicWoundArabic == Str(<<"keheh", "lam", "farsi_yeh", "noon", "yeh", "kaf", " ", "zain", "khah", "meem">>)
ClinicCheckup == Str(<<"keheh", "lam", "farsi_yeh", "noon", "farsi_yeh", "keheh", " ", "waw", "farsi_yeh", "jeh", "heh", " ", "feh", "waw", "qaf", " ", "teh", "khah", "sad", "sad", "farsi_yeh", " ", "tcheh", "keheh", "alef", "peh">>)
ClinicDental == Str(<<"keheh", "lam", "farsi_yeh", "noon", "farsi_yeh", "keheh", " ", "dal", "noon", "dal", "alef", "noon">>)

TagArguments ==
  [status_raw : {NA, Nan, Unknown, StatusShowup, StatusShowupSpaced, StatusCancel,
                 StatusRegistered, TypeInternet},
   appointment_type_raw : {NA, Unknown, TypeInternet, TypeInternetFarsi, TypeFollowUp,
                           TypeFollowUpJoined, StatusShowup},
   clinic_raw : {NA, Unknown, ClinicWound, ClinicWoundArabic, ClinicCheckup, ClinicDental}]

\* the arguments of SpecJalali: every year of the range _is_jalali_date
\* accepts, every month, every day number up to 31
JalaliYears == 1300..1500
JalaliArguments == {<<y, mo, d>> : y \in JalaliYears, mo \in 1..12, d \in 1..31}

\* the arguments of SpecDigits: the absent cell, and the strings of up to
\* MaxDigitLen code points over white space, digits of the three scripts and
\* the letters of "nan"
MaxDigitLen == 4
DigitAlphabet == {" ", "p1", "a2", "3", "n", "a", "N"}
DigitArguments ==
  {NA} \cup {Str(s) : s \in UNION {[1..k -> DigitAlphabet] : k \in 0..MaxDigitLen}}

----------------------------------------------------------------------------
(* The program *)

NoFrame == <<>>

\* the calls of clean_dataframe in one process, and the rows of their frames:
\* an identity with an incomplete name, the same with a complete name, and
\* another identity with an incomplete name
MaxCalls == 2
CallRows ==
  {<<IdA, NameSingle, PhoneP, Ts(2), NA, NA, NA>>,
   <<IdA, NameMaryam, NA, Ts(1), NA, NA, NA>>,
   <<IdB, NameSingle, NA, Ts(1), NA, NA, NA>>}
CallFrames ==
  {[columns |-> DefaultColumns, rows |-> rows] :
     rows \in {<<>>} \cup SeqsUpTo(CallRows, MaxRows)}

\* the decimal digits of n, padded with zeros to width characters
RECURSIVE Decimal(_, _)
Decimal(n, width) ==
  IF width = 0 THEN <<>> ELSE Decimal(n \div 10, width - 1) \o <<AsciiDigits[(n % 10) + 1]>>

\* the arguments of parse_visit_date: texts of a year, a month and a day under
\* each separator, alone or followed by a time.  The years are on both sides
\* of 1300 and 1500 and of the nanosecond range, leap and common in either
\* calendar; the months and days are on both sides of the lengths of the
\* months of either calendar
DateYears == {Decimal(0, 4), Decimal(999, 3), Decimal(1299, 4), Decimal(1300, 4),
              Decimal(1403, 4), Decimal(1404, 4), Decimal(1500, 4), Decimal(1501, 4),
              Decimal(1700, 4), Decimal(2024, 4)}
DateMonths == {Decimal(0, 1), Decimal(1, 1), Decimal(2, 2), Decimal(7, 1),
               Decimal(12, 2), Decimal(13, 2)}
DateDays == {Decimal(0, 2), Decimal(1, 1), Decimal(29, 2), Decimal(30, 2),
             Decimal(31, 2), Decimal(32, 2)}
DateTimes ==
  {<<>>,
   <<" ", "1", "0", ":", "3", "0">>,
   <<" ", "1", "0", ":", "3", "0", ":", "4", "5">>,
   <<" ", " ", "9", ":", "5">>,
   <<" ", "2", "3", ":", "5", "9", ":", "5", "9">>,
   <<" ", "2", "5", ":", "0", "0">>,
   <<" ", "1", "0", ":", "6", "1", ":", "0", "0">>}
DateTexts ==
  {year \o <<by>> \o month \o <<by>> \o day \o time :
     year \in DateYears, by \in {"/", "-", "."}, month \in DateMonths,
     day \in DateDays, time \in DateTimes}

\* and texts of other shapes: eight digits, Persian and Arabic-Indic digits,
\* joiners and outer spaces, a date inside a longer text, a digit before the
\* year, texts that hold no date; an absent cell and a native instant
DateOtherArguments ==
  {NA, Ts(1),
   Str(<<>>), Str(<<" ">>), Str(<<"n", "a", "n">>), Str(<<"a", "b", "c">>),
   Str(<<"1", "4", "0", "3", "1", "2", "3", "0">>),
   Str(<<"2", "0", "2", "4", "0", "2", "3", "0">>),
   Str(<<"1", "4", "0", "3", "1", "2", "3", "0", "1">>),
   Str(<<"p1", "p4", "p0", "p3", "/", "p1", "p2", "/", "p3", "p0">>),
   Str(<<"a1", "a4", "a0", "a3", "/", "a1", "/", "a1", " ", "a1", "a0", ":", "a3", "a0">>),
   Str(<<" ", "rlm", "1", "4", "0", "3", "zwnj", "/", "0", "1", "/", "0", "1", " ">>),
   Str(<<"a", "t", " ", "2", "0", "2", "4", "/", "0", "2", "/", "2", "9", " ", "p", "m">>),
   Str(<<"1", "2", "0", "2", "4", "/", "0", "1", "/", "0", "1">>),
   Str(<<"1", "4", "0", "3", "/", "0", "1">>),
   Str(<<"1", "4", "/", "0", "1", "/", "0", "1">>),
   Str(<<"1", "4", "0", "3", "/", "0", "1", "/", "0", "1", "T", "1", "0", ":", "3", "0">>)}
DateArguments == {Str(text) : text \in DateTexts} \cup DateOtherArguments

\* the state of a fresh process: nothing computed, the attribute
\* _enhanced_deduplication.incomplete_records not set
Fresh ==
  /\ calls = 0
  /\ subset = NoFrame
  /\ resolved = NoFrame
  /\ cleaned_output = NoFrame
  /\ excluded_output = NoFrame
  /\ duplicate_phone_output = NoFrame
  /\ incomplete_name_output = NoFrame
  /\ incomplete_records = NoFrame
  /\ dropped = 0
  /\ error = NoError
  /\ result = NA

\* the state before main() calls clean_dataframe(frame)
Loaded(frame) ==
  /\ pc = "loaded"
  /\ fn = "clean_dataframe"
  /\ df = frame
  /\ value = NA
  /\ non_nanosecond \in BOOLEAN
  /\ Fresh

\* the state before a call of the function f with the argument v
Calling(f, v) ==
  /\ pc = "call"
  /\ fn = f
  /\ df = [columns |-> <<>>, rows |-> <<>>]
  /\ value = v
  /\ non_nanosecond = FALSE
  /\ Fresh

Init == \E rows \in SeqsUpTo(Rows, MaxRows) : Loaded([columns |-> DefaultColumns, rows |-> rows])

InitPhone ==
  \E rows \in SeqsUpTo(PhoneRows, MaxRows) : Loaded([columns |-> DefaultColumns, rows |-> rows])

InitNames ==
  \E rows \in SeqsUpTo(NameRows, MaxRows) : Loaded([columns |-> DefaultColumns, rows |-> rows])

InitColumns == \E frame \in ColumnFrames : Loaded(frame)

InitNationalId == \E v \in NationalIdArguments : Calling("clean_national_id", v)

InitMobile == \E v \in MobileArguments : Calling("clean_mobile", v)

InitJalali == \E v \in JalaliArguments : Calling("jalali_to_gregorian", v)

InitDigits == \E v \in DigitArguments : Calling("normalize_digits", v)

InitCalls == \E frame \in CallFrames : Loaded(frame)

\* a call of parse_visit_date on either build
InitDates ==
  \E v \in DateArguments :
    /\ pc = "call"
    /\ fn = "parse_visit_date"
    /\ df = [columns |-> <<>>, rows |-> <<>>]
    /\ value = v
    /\ non_nanosecond \in BOOLEAN
    /\ Fresh

InitTags == \E v \in TagArguments : Calling("build_tags", v)

\* main(), line 876: the call of clean_dataframe on the merged frame
CleanDataframe ==
  /\ pc = "loaded"
  /\ \E r \in {clean_dataframe(df)} :
       IF r.raised # NoError
       THEN /\ pc' = "raised"
            /\ error' = r.raised
            /\ UNCHANGED <<subset, resolved, cleaned_output, excluded_output,
                           duplicate_phone_output, incomplete_name_output,
                           incomplete_records, dropped>>
       ELSE /\ pc' = "done"
            /\ error' = NoError
            /\ subset' = r.subset
            /\ resolved' = r.resolved
            /\ incomplete_records' = r.incomplete_records
            /\ dropped' = r.dropped
            /\ cleaned_output' = r.cleaned_output
            /\ excluded_output' = r.excluded_output
            /\ duplicate_phone_output' = r.duplicate_phone_output
            /\ incomplete_name_output' = r.incomplete_name_output
  /\ calls' = calls + 1
  /\ UNCHANGED <<df, fn, value, result, non_nanosecond>>

\* the process goes on to another call of clean_dataframe: of the call that
\* returned, the attribute _enhanced_deduplication.incomplete_records remains,
\* and the caller keeps the incomplete-name bucket it was given
LoadNext ==
  /\ pc = "done"
  /\ calls < MaxCalls
  /\ \E frame \in CallFrames : df' = frame
  /\ pc' = "loaded"
  /\ subset' = NoFrame
  /\ resolved' = NoFrame
  /\ cleaned_output' = NoFrame
  /\ excluded_output' = NoFrame
  /\ duplicate_phone_output' = NoFrame
  /\ incomplete_name_output' = NoFrame
  /\ dropped' = 0
  /\ result' = [earlier |-> incomplete_name_output]
  /\ UNCHANGED <<incomplete_records, error, fn, value, calls, non_nanosecond>>

\* a call of f and its return
Return(f, r) ==
  /\ pc = "call"
  /\ fn = f
  /\ pc' = "return"
  /\ result' = r
  /\ UNCHANGED <<df, subset, resolved, cleaned_output, excluded_output,
                 duplicate_phone_output, incomplete_name_output, incomplete_records,
                 dropped, error, fn, value, calls, non_nanosecond>>

CallCleanNationalId == Return("clean_national_id", clean_national_id(value))

CallCleanMobile == Return("clean_mobile", clean_mobile(value))

CallBuildTags == Return("build_tags", build_tags(value))

\* a call of jalali_to_gregorian with a triple
CallJalaliToGregorian ==
  /\ pc = "call"
  /\ fn = "jalali_to_gregorian"
  /\ \E r \in {jalali_to_gregorian(value[1], value[2], value[3])} :
       IF r.raised # NoError
       THEN pc' = "raised" /\ error' = r.raised /\ UNCHANGED <<fn, result>>
       ELSE /\ pc' = "call"
            /\ fn' = "gregorian_to_jalali"
            /\ result' = [gregorian |-> r.returned]
            /\ UNCHANGED error
  /\ UNCHANGED <<df, subset, resolved, cleaned_output, excluded_output,
                 duplicate_phone_output, incomplete_name_output, incomplete_records,
                 dropped, value, calls, non_nanosecond>>

\* a call of gregorian_to_jalali with the triple jalali_to_gregorian returned
CallGregorianToJalali ==
  /\ pc = "call"
  /\ fn = "gregorian_to_jalali"
  /\ \E r \in {gregorian_to_jalali(result.gregorian[1], result.gregorian[2],
                                    result.gregorian[3])} :
       IF r.raised # NoError
       THEN pc' = "raised" /\ error' = r.raised /\ UNCHANGED result
       ELSE /\ pc' = "return"
            /\ result' = [gregorian |-> result.gregorian, jalali |-> r.returned]
            /\ UNCHANGED error
  /\ UNCHANGED <<df, subset, resolved, cleaned_output, excluded_output,
                 duplicate_phone_output, incomplete_name_output, incomplete_records,
                 dropped, fn, value, calls, non_nanosecond>>

\* a call of normalize_digits with a cell
CallNormalizeDigits ==
  /\ pc = "call"
  /\ fn = "normalize_digits"
  /\ result = NA
  /\ result' = [once |-> normalize_digits(value)]
  /\ UNCHANGED <<pc, df, subset, resolved, cleaned_output, excluded_output,
                 duplicate_phone_output, incomplete_name_output, incomplete_records,
                 dropped, error, fn, value, calls, non_nanosecond>>

\* a call of normalize_digits with the str the first call returned
CallNormalizeDigitsAgain ==
  /\ pc = "call"
  /\ fn = "normalize_digits"
  /\ result # NA
  /\ pc' = "return"
  /\ result' = [once |-> result.once, twice |-> normalize_digits(Str(result.once))]
  /\ UNCHANGED <<df, subset, resolved, cleaned_output, excluded_output,
                 duplicate_phone_output, incomplete_name_output, incomplete_records,
                 dropped, error, fn, value, calls, non_nanosecond>>

CallParseVisitDate == Return("parse_visit_date", parse_visit_date(value))

Next == CleanDataframe

Spec == Init /\ [][Next]_vars

SpecPhone == InitPhone /\ [][Next]_vars

SpecNames == InitNames /\ [][Next]_vars

SpecColumns == InitColumns /\ [][Next]_vars

SpecNationalId == InitNationalId /\ [][CallCleanNationalId]_vars

SpecMobile == InitMobile /\ [][CallCleanMobile]_vars

SpecJalali == InitJalali /\ [][CallJalaliToGregorian \/ CallGregorianToJalali]_vars

SpecDigits == InitDigits /\ [][CallNormalizeDigits \/ CallNormalizeDigitsAgain]_vars

SpecCalls == InitCalls /\ [][CleanDataframe \/ LoadNext]_vars

SpecDates == InitDates /\ [][CallParseVisitDate]_vars

SpecTags == InitTags /\ [][CallBuildTags]_vars

----------------------------------------------------------------------------
(* Claims on the classification of rows *)

\* the index labels (positions in the input table) of the rows of a frame
Indices(frame) == {frame[i].index : i \in 1..Len(frame)}

\* the number of output buckets that hold the input row of label i
BucketsOf(i) ==
  (IF i \in Indices(cleaned_output) THEN 1 ELSE 0)
    + (IF i \in Indices(excluded_output) THEN 1 ELSE 0)
    + (IF i \in Indices(duplicate_phone_output) THEN 1 ELSE 0)
    + (IF i \in Indices(incomplete_name_output) THEN 1 ELSE 0)

\* the labels of the rows that the required-field check of lines 724-728 removes
RequiredDropped ==
  Indices(Filter(resolved, LAMBDA r : ~invalid_name_mask(r) /\ ~required_mask(r)))

\* C1: when clean_dataframe has returned, every input row is in exactly one of
\* the four output buckets, or is in none of them and was removed by the
\* required-field check.
C1_EveryRowInExactlyOneBucket ==
  pc = "done" =>
    \A i \in 1..Len(df.rows) :
      \/ BucketsOf(i) = 1
      \/ BucketsOf(i) = 0 /\ i \in RequiredDropped

\* the rows of the prepared table whose identity number is absent
AbsentIdentity == Filter(subset, LAMBDA r : isna(r.national_id))

\* the labels of the rows that enter the groups of the per-identity loop
Grouped ==
  UNION {Indices(GroupOf(subset, GroupKeys(subset)[g])) : g \in 1..Len(GroupKeys(subset))}

\* C2: when clean_dataframe has returned, every row whose identity number is
\* absent after clean_national_id is in the excluded bucket, and is in no
\* group of the per-identity loop.
C2_AbsentIdentityIsExcluded ==
  pc = "done" =>
    \A i \in Indices(AbsentIdentity) :
      i \in Indices(excluded_output) /\ i \notin Grouped

\* a is visited before b in the visit-descending order of a group: a has the
\* later visit instant (an absent instant is last), or neither is later and a
\* is earlier in the input table
Precedes(a, b) ==
  \/ notna(a.visit_date_parsed)
       /\ (isna(b.visit_date_parsed) \/ a.visit_date_parsed.t > b.visit_date_parsed.t)
  \/ /\ a.visit_date_parsed = b.visit_date_parsed
     /\ a.index < b.index

\* both names present and of at least three characters
CompleteName(r) ==
  /\ notna(r.first_name) /\ Len(r.first_name.s) >= 3
  /\ notna(r.last_name) /\ Len(r.last_name.s) >= 3

\* the prepared rows of one identity number
RowsOf(id) == Filter(subset, LAMBDA r : r.national_id = id)

\* the first of the rows of `rows` in the visit-descending order
First(rows) ==
  rows[CHOOSE i \in 1..Len(rows) : \A j \in 1..Len(rows) : j = i \/ Precedes(rows[i], rows[j])]

\* the identity numbers whose most recent record has an incomplete name while
\* another record of the group has a complete one
Completable ==
  {id \in {subset[i].national_id : i \in 1..Len(subset)} :
     /\ notna(id)
     /\ ~CompleteName(First(RowsOf(id)))
     /\ Filter(RowsOf(id), CompleteName) # <<>>}

\* the record the engine emits for identity id takes every field but the
\* names from the most recent record, and first and last name from the first
\* complete-name record
Completed(id, emitted) ==
  LET most_recent == First(RowsOf(id))
      named == First(Filter(RowsOf(id), CompleteName))
  IN /\ emitted.first_name = named.first_name
     /\ emitted.last_name = named.last_name
     /\ \A f \in {"index", "national_id", "mobile", "visit_date_parsed", "status_raw",
                  "appointment_type_raw", "clinic_raw"} : emitted[f] = most_recent[f]

\* C3 (as amended): for an identity whose most recent record has an
\* incomplete name and which has a record with a complete name, the engine
\* emits exactly one record and none to the incomplete-name list; its first and
\* last name are those of the first complete-name record in visit-descending
\* order, its full name is that first name, one space, and that last name, and
\* its other fields are those of the most recent record.
C3_NameCompletion ==
  pc = "done" =>
    \A id \in Completable :
      LET emitted == Filter(resolved, LAMBDA r : r.national_id = id)
          named == First(Filter(RowsOf(id), CompleteName))
      IN /\ Len(emitted) = 1
         /\ Filter(incomplete_records, LAMBDA r : r.national_id = id) = <<>>
         /\ Completed(id, emitted[1])
         /\ emitted[1].full_name = Str(named.first_name.s \o <<" ">> \o named.last_name.s)

\* C3 as stated: the emitted record's full name is the full name of the first
\* complete-name record.
C3_FullNameOfCompleteRecord ==
  pc = "done" =>
    \A id \in Completable :
      LET emitted == Filter(resolved, LAMBDA r : r.national_id = id)
          named == First(Filter(RowsOf(id), CompleteName))
      IN /\ Len(emitted) = 1
         /\ Completed(id, emitted[1])
         /\ emitted[1].full_name = named.full_name

\* a name was completed from an older record whose full name is not its first
\* and last name joined by one space, and the phone is the newer record's
C3_Witness ==
  /\ pc = "done"
  /\ \E id \in Completable :
       LET named == First(Filter(RowsOf(id), CompleteName))
           emitted == Filter(resolved, LAMBDA r : r.national_id = id)
       IN /\ named.full_name = NameMaryam
          /\ emitted[1].mobile # named.mobile
          /\ emitted[1].index # named.index

\* the survivors that passed name validation and the required-field check
Passed == Filter(resolved, LAMBDA r : ~invalid_name_mask(r) /\ required_mask(r))

\* C4: of the rows that passed resolution, name validation and the
\* required-field check, every row whose present phone is the phone of a row of
\* another identity is in duplicate-phone and not in cleaned; no two cleaned
\* rows share a present phone; no row of duplicate-phone has an absent phone.
C4_DuplicatePhones ==
  pc = "done" =>
    /\ \A i \in 1..Len(Passed) :
         (/\ notna(Passed[i].mobile)
          /\ \E j \in 1..Len(Passed) :
               /\ Passed[j].national_id # Passed[i].national_id
               /\ Passed[j].mobile = Passed[i].mobile)
           => /\ Passed[i].index \in Indices(duplicate_phone_output)
              /\ Passed[i].index \notin Indices(cleaned_output)
    /\ \A i, j \in 1..Len(cleaned_output) :
         (i # j /\ notna(cleaned_output[i].mobile))
           => cleaned_output[i].mobile # cleaned_output[j].mobile
    /\ \A i \in 1..Len(duplicate_phone_output) : notna(duplicate_phone_output[i].mobile)

\* two identities gave the same phone in two spellings; both are in
\* duplicate-phone and cleaned is empty
C4_Witness ==
  /\ pc = "done"
  /\ Len(duplicate_phone_output) = 2
  /\ duplicate_phone_output[1].mobile_raw # duplicate_phone_output[2].mobile_raw
  /\ cleaned_output = <<>>

----------------------------------------------------------------------------
(* Claims on the validators *)

\* the decimal digits of a str, as ASCII digits
DigitsOf(v) ==
  LET kept == SelectSeq(v.s, IsDigit)
  IN List([i \in 1..Len(kept) |-> PERSIAN_DIGIT_MAP(kept[i])])

Returned(f) == pc = "return" /\ fn = f

\* the weighted sum of the first n of ten digits, weights 10 down to 2
RECURSIVE WeightedSum(_, _)
WeightedSum(d, n) ==
  IF n = 0 THEN 0 ELSE WeightedSum(d, n - 1) + DigitValue[d[n]] * (11 - n)

\* the check-digit rule of the national identity number: with r the weighted
\* sum of the first nine digits modulo 11, the tenth digit is r if r < 2 and
\* 11 - r otherwise
ChecksumValid(d) ==
  LET r == WeightedSum(d, 9) % 11
  IN IF r < 2 THEN DigitValue[d[10]] = r ELSE DigitValue[d[10]] = 11 - r

\* d is a checksum-valid string with its last digit changed by 1
NeighbourOfValid(d) ==
  \E c \in Range(AsciiDigits) :
    /\ DigitValue[c] - DigitValue[d[10]] \in {-1, 1}
    /\ ChecksumValid([d EXCEPT ![10] = c])

\* the argument is a string of exactly ten digits
TenDigits == Len(value.s) = 10 /\ Len(DigitsOf(value)) = 10

\* C5 (as amended): clean_national_id accepts a string of ten digits exactly
\* when its digits are not all the same, whatever its check digit: it rejects
\* a checksum-valid string of one repeated digit, and a string of two or more
\* distinct digits obtained from a checksum-valid one by changing the last
\* digit by 1 is accepted.
C5_LenientNationalId ==
  (Returned("clean_national_id") /\ TenDigits) =>
    LET d == DigitsOf(value)
    IN /\ Cardinality(Range(d)) > 1 => result = Str(d)
       /\ Cardinality(Range(d)) = 1 => result = NA
       /\ (NeighbourOfValid(d) /\ Cardinality(Range(d)) > 1) => result = Str(d)

\* C5 as stated: a checksum-valid string of ten digits is accepted, and the
\* string obtained from one by changing the last digit by 1 is rejected.
C5_ChecksumDecides ==
  (Returned("clean_national_id") /\ TenDigits) =>
    LET d == DigitsOf(value)
    IN /\ ChecksumValid(d) => result = Str(d)
       /\ NeighbourOfValid(d) => result = NA

\* a string that differs from a checksum-valid one by 1 in the last digit, and
\* so is not checksum-valid, was accepted
C5_Witness ==
  /\ Returned("clean_national_id")
  /\ TenDigits
  /\ NeighbourOfValid(DigitsOf(value))
  /\ ~ChecksumValid(DigitsOf(value))
  /\ result = Str(DigitsOf(value))

\* C6: clean_mobile maps an input whose digits are 98 and ten more, or 0098
\* and ten more, to 0 and those ten digits, and returns absent for an input
\* with fewer than ten digits.
C6_CountryPrefix ==
  Returned("clean_mobile") =>
    LET d == DigitsOf(value)
    IN /\ (Len(d) = 12 /\ SubSeq(d, 1, 2) = <<"9", "8">>)
            => result = Str(<<"0">> \o SubSeq(d, 3, 12))
       /\ (Len(d) = 14 /\ SubSeq(d, 1, 4) = <<"0", "0", "9", "8">>)
            => result = Str(<<"0">> \o SubSeq(d, 5, 14))
       /\ Len(d) < 10 => result = NA

\* a number written 0098 and ten digits, the first of them a Persian digit,
\* was mapped to 0 and the ten digits
C6_Witness ==
  /\ Returned("clean_mobile")
  /\ Len(value.s) = 14
  /\ SubSeq(value.s, 1, 5) = <<"0", "0", "9", "8", "p9">>
  /\ result = Str(<<"0", "9">> \o SubSeq(value.s, 6, 14))

\* C7: of the numbers of ten digits clean_mobile prepends 0 to those that
\* start with 9 and returns every other one unchanged, and it returns every
\* number of eleven digits unchanged.
C7_TenAndElevenDigits ==
  Returned("clean_mobile") =>
    LET d == DigitsOf(value)
    IN /\ (Len(d) = 10 /\ d[1] = "9") => result = Str(<<"0">> \o d)
       /\ (Len(d) = 10 /\ d[1] # "9") => result = Str(d)
       /\ Len(d) = 11 => result = Str(d)

----------------------------------------------------------------------------
(* Claims on tags, name validation and column resolution *)

\* the normalized, case-folded form under which a tag table is searched
Key(v) == Casefold(normalize_farsi_text(v))

\* the tags a source table gives for a cell: those of the keys whose
\* normalized, case-folded form is that of the cell
TagsFor(source, raw) ==
  IF Key(raw) = <<>> THEN {}
  ELSE {source[i][2] : i \in {j \in 1..Len(source) : Key(Str(source[j][1])) = Key(raw)}}

\* no tag, or one of the tags of the table
Choices(source, raw) ==
  IF TagsFor(source, raw) = {} THEN {<<>>} ELSE {<<t>> : t \in TagsFor(source, raw)}

\* a list of tokens without the repetitions of earlier tokens
RECURSIVE Dedupe(_)
Dedupe(tags) ==
  IF tags = <<>> THEN <<>>
  ELSE LET front == Dedupe(SubSeq(tags, 1, Len(tags) - 1))
           last == tags[Len(tags)]
       IN IF last \in Range(front) THEN front ELSE Append(front, last)

\* the tokens, each followed by a comma
RECURSIVE Render(_)
Render(tags) == IF tags = <<>> THEN <<>> ELSE <<Head(tags), ",">> \o Render(Tail(tags))

\* C8: build_tags returns noor_hospital_queue and patient, then the status
\* tag, the appointment-type tag and the clinic tag, each when the normalized
\* case-folded cell is a key of its table, repeated tokens suppressed, every
\* token followed by a comma; the result is never empty; a record with the
\* showup status and no match for appointment type and clinic yields
\* noor_hospital_queue,patient,showup_patient,
C8_Tags ==
  Returned("build_tags") =>
    /\ result \in
         {Render(Dedupe(<<"noor_hospital_queue", "patient">> \o s \o a \o c)) :
            s \in Choices(STATUS_TAG_SOURCE, value.status_raw),
            a \in Choices(APPOINTMENT_TYPE_TAG_SOURCE, value.appointment_type_raw),
            c \in Choices(CLINIC_TAG_SOURCE, value.clinic_raw)}
    /\ result # <<>>
    /\ (/\ "showup_patient" \in TagsFor(STATUS_TAG_SOURCE, value.status_raw)
        /\ TagsFor(APPOINTMENT_TYPE_TAG_SOURCE, value.appointment_type_raw) = {}
        /\ TagsFor(CLINIC_TAG_SOURCE, value.clinic_raw) = {})
         => result = <<"noor_hospital_queue", ",", "patient", ",", "showup_patient", ",">>

\* a status spelled with extra spaces, an appointment type spelled with
\* Arabic letters and a clinic gave three tags after the two fixed ones
C8_Witness ==
  /\ Returned("build_tags")
  /\ value.status_raw = StatusShowupSpaced
  /\ value.appointment_type_raw = TypeInternet
  /\ value.clinic_raw = ClinicWoundArabic
  /\ result = <<"noor_hospital_queue", ",", "patient", ",", "showup_patient", ",",
                "internet_user", ",", "wound_care_clinic", ",">>

\* a name of fewer than three characters, an absent name counting as empty
ShortName(n) == isna(n) \/ Len(n.s) < 3

\* a name that consists of digits only
DigitName(n) == notna(n) /\ n.s # <<>> /\ \A i \in 1..Len(n.s) : n.s[i] \in Digits

\* the name of a record is invalid
InvalidName(r) ==
  LET full == IF isna(r.full_name) THEN <<>> ELSE r.full_name.s
  IN \/ Contains(full, KARBAR)
     \/ \E i \in 1..Len(full) : full[i] \in Latin \cup {".", "-"}
     \/ ShortName(r.first_name) \/ ShortName(r.last_name)
     \/ DigitName(r.first_name) \/ DigitName(r.last_name)

\* C9: every survivor of per-identity resolution whose name is invalid is in
\* the excluded bucket and in no other bucket, and every survivor whose name is
\* not invalid is absent from the excluded bucket.
C9_InvalidNamesExcluded ==
  pc = "done" =>
    \A i \in 1..Len(resolved) :
      IF InvalidName(resolved[i])
      THEN /\ resolved[i].index \in Indices(excluded_output)
           /\ resolved[i].index \notin Indices(cleaned_output)
           /\ resolved[i].index \notin Indices(duplicate_phone_output)
           /\ resolved[i].index \notin Indices(incomplete_name_output)
      ELSE resolved[i].index \notin Indices(excluded_output)

\* of two survivors the one with a name in Latin letters is excluded and the
\* other is cleaned
C9_Witness ==
  /\ pc = "done"
  /\ Len(resolved) = 2
  /\ Len(excluded_output) = 1
  /\ excluded_output[1].full_name = NameLatin
  /\ Len(cleaned_output) = 1

\* a header matches an alias when they are equal after white space is removed
\* and case is folded
Matches(header, alias) ==
  Casefold(SelectSeq(header, LAMBDA c : c \notin Spaces))
    = Casefold(SelectSeq(alias, LAMBDA c : c \notin Spaces))

\* no header of the input table matches one of the aliases
Unmatched(aliases) ==
  \A a \in 1..Len(aliases), j \in 1..Len(df.columns) : ~Matches(df.columns[j], aliases[a])

MissingRequired == {t \in Range(RequiredTargets) : Unmatched(COLUMN_ALIASES[t])}
MissingOptional == {t \in Range(OptionalTargets) : Unmatched(OPTIONAL_COLUMN_ALIASES[t])}

\* the working column of an optional field
RawColumn ==
  [visit_date |-> "visit_date_raw", status |-> "status_raw",
   appointment_type |-> "appointment_type_raw", clinic |-> "clinic_raw"]

\* C10: clean_dataframe fails exactly when a required field has no alias
\* matching a header, with an error naming such a field and its aliases; for an
\* optional field without a matching header it does not fail for that and the
\* field's column is absent in every row.
C10_ColumnResolution ==
  pc \in {"raised", "done"} =>
    /\ pc = "raised" <=> MissingRequired # {}
    /\ pc = "raised" =>
         /\ error.type = "KeyError"
         /\ error.target \in MissingRequired
         /\ error.aliases = COLUMN_ALIASES[error.target]
    /\ pc = "done" =>
         \A t \in MissingOptional : \A i \in 1..Len(subset) : subset[i][RawColumn[t]] = NA

\* the identity column is found under an alias spelled with two spaces, no
\* optional field has a column, and the row is processed with them absent
C10_Witness ==
  /\ pc = "done"
  /\ HeaderIdSpaced \in Range(df.columns)
  /\ DefaultColumns[1] \notin Range(df.columns)
  /\ MissingOptional = Range(OptionalTargets)
  /\ Len(subset) = 1
  /\ subset[1].national_id = IdB
  /\ subset[1].clinic_raw = NA

----------------------------------------------------------------------------
(* Claims on the calendar conversion *)

\* C11: for every valid Jalali date of the years 1300 to 1500,
\* gregorian_to_jalali applied to what jalali_to_gregorian returned gives the
\* date back, and neither call raises.
C11_JalaliRoundTrip ==
  fn \in {"jalali_to_gregorian", "gregorian_to_jalali"} =>
    /\ (pc = "return") => result.jalali = value
    /\ (pc = "raised") =>
         ~(value[3] <= j_days_in_month[value[2]]
             \/ (value[2] = 12 /\ value[3] = 30 /\ JalaliLeap(value[1])))

\* the last day of the leap year 1403, 30 Esfand, went to 20 March 2025 and
\* came back
C11_Witness ==
  /\ pc = "return"
  /\ fn = "gregorian_to_jalali"
  /\ value = <<1403, 12, 30>>
  /\ result = [gregorian |-> <<2025, 3, 20>>, jalali |-> <<1403, 12, 30>>]

----------------------------------------------------------------------------
(* Claims on digit normalization *)

\* C12: for every cell v, normalize_digits(normalize_digits(v)) is
\* normalize_digits(v).
C12_NormalizeDigitsIdempotent ==
  (pc = "return" /\ fn = "normalize_digits") => result.twice = result.once

\* a cell with white space around a Persian and an Arabic-Indic digit was
\* normalized to two ASCII digits, and these were normalized again
C12_Witness ==
  /\ pc = "return"
  /\ fn = "normalize_digits"
  /\ value = Str(<<" ", "p1", "a2", " ">>)
  /\ result = [once |-> <<"1", "2">>, twice |-> <<"1", "2">>]


\* the records the engine emits for identity id, to either list
SurvivorsOf(id) ==
  Filter(resolved, LAMBDA r : r.national_id = id)
    \o Filter(incomplete_records, LAMBDA r : r.national_id = id)

BucketRows(bucket, id) == Filter(bucket, LAMBDA r : r.national_id = id)

\* a is of a strictly later visit instant than b, an absent instant being the
\* earliest
Later(a, b) ==
  /\ notna(a.visit_date_parsed)
  /\ isna(b.visit_date_parsed) \/ a.visit_date_parsed.t > b.visit_date_parsed.t

\* C14: the survivor of an identity group in which no record has a complete
\* name is in the incomplete-name bucket and in none of the cleaned, excluded
\* and duplicate-phone buckets; a group with a complete-name record puts
\* nothing in the incomplete-name bucket.
C14_IncompleteNameBucket ==
  pc = "done" =>
    \A id \in {subset[i].national_id : i \in 1..Len(subset)} :
      notna(id) =>
        IF Filter(RowsOf(id), CompleteName) = <<>>
        THEN /\ Len(BucketRows(incomplete_name_output, id)) = 1
             /\ BucketRows(incomplete_name_output, id)[1].index = First(RowsOf(id)).index
             /\ BucketRows(cleaned_output, id) = <<>>
             /\ BucketRows(excluded_output, id) = <<>>
             /\ BucketRows(duplicate_phone_output, id) = <<>>
        ELSE BucketRows(incomplete_name_output, id) = <<>>

\* an identity has two records of different instants, neither with a complete
\* name, and the later one is the only row of the incomplete-name bucket
C14_Witness ==
  /\ pc = "done"
  /\ \E id \in {subset[i].national_id : i \in 1..Len(subset)} :
       /\ notna(id)
       /\ Len(RowsOf(id)) = 2
       /\ Filter(RowsOf(id), CompleteName) = <<>>
       /\ Later(RowsOf(id)[1], RowsOf(id)[2])
       /\ df.rows[1] # df.rows[2]
       /\ Len(incomplete_name_output) = 1
       /\ incomplete_name_output[1].index = RowsOf(id)[1].index
       /\ cleaned_output = <<>> /\ excluded_output = <<>> /\ duplicate_phone_output = <<>>

----------------------------------------------------------------------------
(* Claims on the date disambiguator *)

\* the numbers written in a text, in the order they are written
RECURSIVE Numbers(_)
Numbers(text) ==
  IF text = <<>> THEN <<>>
  ELSE IF ~IsDigit(Head(text)) THEN Numbers(Tail(text))
  ELSE LET run == DigitRun(text, Len(text))
       IN <<IntOf(run)>> \o Numbers(After(text, Len(run)))

\* the date of an instant read from a text
DateOf(instant) == SubSeq(instant.t, 1, 3)

\* a Gregorian date at an hour and minute that pd.Timestamp holds on the build
Holds(year, month, day, hour, minute) ==
  \/ non_nanosecond
  \/ /\ ~TupleLess(<<year, month, day, hour, minute, 0>>, Timestamp_min)
     /\ ~TupleLess(Timestamp_max, <<year, month, day, hour, minute, 0>>)

\* C15: parse_visit_date reads the year, month and day of a text as a Jalali
\* date, and returns the Gregorian date it converts to, exactly when the year
\* is within 1300..1500 and the three are a date of the Jalali calendar;
\* otherwise it reads them as a Gregorian date; when they are a date of
\* neither calendar it returns the absent instant and raises nothing.  (It
\* also returns the absent instant for an hour or minute out of range, and
\* for a Gregorian date outside the nanosecond range on a build that holds
\* no other.)
C15_JalaliOrGregorian ==
  (fn = "parse_visit_date" /\ pc # "call" /\ value.k = "str" /\ value.s \in DateTexts) =>
    LET n == Numbers(value.s)
        hour == IF Len(n) > 3 THEN n[4] ELSE 0
        minute == IF Len(n) > 4 THEN n[5] ELSE 0
    IN /\ pc = "return"
       /\ IF hour > 23 \/ minute > 59 THEN result = NaT
          ELSE IF 1300 <= n[1] /\ n[1] <= 1500 /\ JalaliValid(n[1], n[2], n[3])
          THEN /\ notna(result)
               /\ DateOf(result) = JalaliToGregorian(n[1], n[2], n[3])
          ELSE IF DatetimeValid(n[1], n[2], n[3], 0, 0, 0)
                    /\ Holds(n[1], n[2], n[3], hour, minute)
          THEN notna(result) /\ DateOf(result) = <<n[1], n[2], n[3]>>
          ELSE result = NaT

\* the last day of the Jalali leap year 1403 comes back as 20 March 2025
C15_Witness ==
  /\ pc = "return"
  /\ fn = "parse_visit_date"
  /\ value = Str(<<"1", "4", "0", "3", "-", "1", "2", "-", "3", "0">>)
  /\ result = Ts(<<2025, 3, 20, 0, 0, 0>>)

\* C16: for a text of a date followed by hour, minute and second,
\* parse_visit_date returns an instant of that hour, minute and second; a
\* time component the text does not have is 0 in the instant.
C16_TimeOfDay ==
  (pc = "return" /\ fn = "parse_visit_date" /\ value.k = "str" /\ value.s \in DateTexts
     /\ notna(result)) =>
    LET n == Numbers(value.s)
    IN SubSeq(result.t, 4, 6) = <<IF Len(n) > 3 THEN n[4] ELSE 0,
                                  IF Len(n) > 4 THEN n[5] ELSE 0,
                                  IF Len(n) > 5 THEN n[6] ELSE 0>>

----------------------------------------------------------------------------
(* Claims on the buckets *)

\* C17: the required-field check removes no row: every record that per-identity
\* resolution emitted and the name validator did not exclude has a present
\* identity number, first name and last name, and the count of dropped rows
\* is 0.
C17_NothingDropped ==
  pc = "done" =>
    /\ dropped = 0
    /\ \A i \in 1..Len(resolved) :
         ~InvalidName(resolved[i]) =>
           /\ notna(resolved[i].national_id)
           /\ notna(resolved[i].first_name)
           /\ notna(resolved[i].last_name)

\* of a row without an identity number and a row with one and a valid name,
\* the second reaches the check and passes it, and nothing is dropped
C17_Witness ==
  /\ pc = "done"
  /\ Len(df.rows) = 2
  /\ AbsentIdentity # <<>>
  /\ \E i \in 1..Len(resolved) : ~InvalidName(resolved[i])
  /\ Len(cleaned_output) = 1
  /\ dropped = 0

\* the rows of the four output buckets that carry identity number id
OutputRows(id) ==
  BucketRows(cleaned_output, id) \o BucketRows(excluded_output, id)
    \o BucketRows(duplicate_phone_output, id) \o BucketRows(incomplete_name_output, id)

\* C18: each valid identity number of the input is the identity number of
\* exactly one row of the four output buckets taken together.
C18_OneRowPerIdentity ==
  pc = "done" =>
    \A i \in 1..Len(df.rows) :
      LET id == clean_national_id(df.rows[i][1]) IN
      notna(id) => Len(OutputRows(id)) = 1

\* two identities with one phone: each has its one row, in the duplicate-phone
\* bucket
C18_Witness ==
  /\ pc = "done"
  /\ Len(df.rows) = 2
  /\ notna(clean_national_id(df.rows[1][1]))
  /\ notna(clean_national_id(df.rows[2][1]))
  /\ clean_national_id(df.rows[1][1]) # clean_national_id(df.rows[2][1])
  /\ Len(duplicate_phone_output) = 2
  /\ \A i \in 1..2 : Len(OutputRows(clean_national_id(df.rows[i][1]))) = 1

\* the record of the prepared table that a row of an output bucket was made
\* from: one of the same label with the same cells
FromThisCall(row) ==
  \E i \in 1..Len(subset) :
    /\ subset[i].index = row.index
    /\ \A f \in DOMAIN subset[i] : row[f] = subset[i][f]

\* C19: after each call of clean_dataframe in a process, every row of the
\* incomplete-name bucket it returned was made from a record of that call's
\* input, the survivor of a group that has no complete name in that input; the
\* attribute holds these records and no record of an earlier call.
C19_OnlyThisCall ==
  pc = "done" =>
    /\ \A i \in 1..Len(incomplete_name_output) :
         /\ FromThisCall(incomplete_name_output[i])
         /\ Filter(RowsOf(incomplete_name_output[i].national_id), CompleteName) = <<>>
    /\ Len(incomplete_records) = Len(incomplete_name_output)
    /\ \A i \in 1..Len(incomplete_records) : FromThisCall(incomplete_records[i])

\* the first call returned the record of identity A, whose name is incomplete;
\* the second call, on a frame where identity A has a complete name, returns
\* an empty incomplete-name bucket and leaves the attribute empty
C19_Witness ==
  /\ pc = "done"
  /\ calls = 2
  /\ Len(result.earlier) = 1
  /\ result.earlier[1].national_id = clean_national_id(IdA)
  /\ Len(df.rows) = 1
  /\ df.rows[1][1] = IdA
  /\ df.rows[1][2] = NameMaryam
  /\ Len(cleaned_output) = 1
  /\ incomplete_name_output = <<>>
  /\ incomplete_records = <<>>

====
